---- MODULE Spec2Model ----
(***************************************************************************)
(* Upload ingestion and AI-content generation of swift-study-box-be.       *)
(*                                                                         *)
(* Conventions of the model:                                               *)
(*  - a text (Python str / decoded bytes) is a sequence of one-character   *)
(*    strings;                                                             *)
(*  - a JSON object / dict is a function whose DOMAIN is its key set;      *)
(*  - the services read and write the JSON column of an upload through the *)
(*    attribute `metadata` (upload_service.py:111,154); the model treats   *)
(*    it as the record's metadata column (models/upload.py:39);            *)
(*  - names the modules use without importing (datetime) are taken to      *)
(*    resolve, and `await` is taken to be legal where the source writes it.*)
(***************************************************************************)
EXTENDS Integers, Sequences, FiniteSets, TLC

(***************************************************************************)
(* Bounds of the model.                                                    *)
(***************************************************************************)
\* requests the API serves in a run
MaxRequests == 2

None == "None"

Min(a, b) == IF a < b THEN a ELSE b

\* F applied to v, v evaluated once
Let(v, F(_)) == CHOOSE r \in {F(x) : x \in {v}} : TRUE

(***************************************************************************)
(* Python string primitives used by ai_service.py.                         *)
(***************************************************************************)
Whitespace == {" ", "\n"}

UpperChars == <<"A", "B", "C", "D", "E", "F", "G", "H", "I", "J", "K", "L", "M",
                "N", "O", "P", "Q", "R", "S", "T", "U", "V", "W", "X", "Y", "Z">>

LowerChars == <<"a", "b", "c", "d", "e", "f", "g", "h", "i", "j", "k", "l", "m",
                "n", "o", "p", "q", "r", "s", "t", "u", "v", "w", "x", "y", "z">>

Digits == {"0", "1", "2", "3", "4", "5", "6", "7", "8", "9"}

\* \w of the re module
WordChars == {UpperChars[i] : i \in 1..26} \cup {LowerChars[i] : i \in 1..26}
             \cup Digits \cup {"_"}

Letters == {UpperChars[i] : i \in 1..26} \cup {LowerChars[i] : i \in 1..26}

LowerChar(c) ==
    IF \E i \in 1..26 : UpperChars[i] = c
    THEN LowerChars[CHOOSE i \in 1..26 : UpperChars[i] = c]
    ELSE c

UpperChar(c) ==
    IF \E i \in 1..26 : LowerChars[i] = c
    THEN UpperChars[CHOOSE i \in 1..26 : LowerChars[i] = c]
    ELSE c

\* str.lower()
Lower(s) == [i \in 1..Len(s) |-> LowerChar(s[i])]

RECURSIVE LStrip(_)
LStrip(s) ==
    IF s # <<>> /\ Head(s) \in Whitespace THEN LStrip(Tail(s)) ELSE s

RECURSIVE RStrip(_)
RStrip(s) ==
    IF s # <<>> /\ s[Len(s)] \in Whitespace
    THEN RStrip(SubSeq(s, 1, Len(s) - 1)) ELSE s

\* str.strip()
Strip(s) == RStrip(LStrip(s))

\* str.split(sep) for a one-character separator: always at least one piece
RECURSIVE SplitFrom(_, _, _)
SplitFrom(s, sep, cur) ==
    IF s = <<>> THEN <<cur>>
    ELSE IF Head(s) = sep THEN <<cur>> \o SplitFrom(Tail(s), sep, <<>>)
    ELSE SplitFrom(Tail(s), sep, Append(cur, Head(s)))

Split(s, sep) == SplitFrom(s, sep, <<>>)

\* sep.join(pieces)
RECURSIVE Join(_, _)
Join(pieces, sep) ==
    IF pieces = <<>> THEN <<>>
    ELSE IF Len(pieces) = 1 THEN pieces[1]
    ELSE pieces[1] \o sep \o Join(Tail(pieces), sep)

\* `w in s` for strings
Contains(s, w) ==
    \E i \in 1..(Len(s) - Len(w) + 1) : SubSeq(s, i, i + Len(w) - 1) = w

\* re.findall(r'\b\w+\b', s): the maximal runs of word characters
RECURSIVE WordsFrom(_, _)
WordsFrom(s, cur) ==
    IF s = <<>> THEN (IF cur = <<>> THEN <<>> ELSE <<cur>>)
    ELSE IF Head(s) \in WordChars THEN WordsFrom(Tail(s), Append(cur, Head(s)))
    ELSE (IF cur = <<>> THEN <<>> ELSE <<cur>>) \o WordsFrom(Tail(s), <<>>)

Words(s) == WordsFrom(s, <<>>)

\* s[:n]
Prefix(s, n) == SubSeq(s, 1, Min(n, Len(s)))

\* number of occurrences of x in seq
Count(seq, x) == Cardinality({i \in 1..Len(seq) : seq[i] = x})

\* the distinct elements of seq in first-seen order (dict insertion order)
RECURSIVE Distinct(_)
Distinct(seq) ==
    IF seq = <<>> THEN <<>>
    ELSE LET rest == Distinct(SubSeq(seq, 1, Len(seq) - 1))
             x == seq[Len(seq)]
         IN IF \E i \in 1..Len(rest) : rest[i] = x THEN rest ELSE Append(rest, x)

\* sorted(word_freq.items(), key=lambda x: x[1], reverse=True): stable, descending
\* by the frequency of the word in `all`
RECURSIVE InsertDesc(_, _, _)
InsertDesc(sorted, x, all) ==
    IF sorted = <<>> THEN <<x>>
    ELSE IF Count(all, Head(sorted)) >= Count(all, x)
         THEN <<Head(sorted)>> \o InsertDesc(Tail(sorted), x, all)
         ELSE <<x>> \o sorted

RECURSIVE SortedDesc(_, _)
SortedDesc(items, all) ==
    IF items = <<>> THEN <<>>
    ELSE InsertDesc(SortedDesc(SubSeq(items, 1, Len(items) - 1), all),
                    items[Len(items)], all)

(***************************************************************************)
(* ai_service.py: deterministic analysers.                                 *)
(***************************************************************************)
SummarySentences == 3
KeywordMinLen == 3
MaxKeywords == 10

generate_simple_summary(text) ==
    LET sentences == Split(text, ".")
    IN Join(Prefix(sentences, SummarySentences), <<".", " ">>) \o <<".">>

\* variant: the length test as len(word) >= 3
extract_simple_keywords_from_three(text) ==
    LET words == Words(Lower(text))
        long == SelectSeq(words, LAMBDA w : Len(w) >= KeywordMinLen)
        sorted_words == SortedDesc(Distinct(long), long)
    IN Prefix(sorted_words, MaxKeywords)

extract_simple_keywords(text) ==
    LET words == Words(Lower(text))
        long == SelectSeq(words, LAMBDA w : Len(w) > KeywordMinLen)
        sorted_words == SortedDesc(Distinct(long), long)
    IN Prefix(sorted_words, MaxKeywords)

italian_words == << <<"i", "l">>, <<"l", "a">>, <<"d", "i">>, <<"c", "h", "e">>,
                    <<"e">>, <<"u", "n">>, <<"u", "n", "a">>, <<"p", "e", "r">>,
                    <<"c", "o", "n">>, <<"d", "e", "l">>,
                    <<"d", "e", "l", "l", "a">> >>

english_words == << <<"t", "h", "e">>, <<"a", "n", "d">>, <<"o", "f">>, <<"t", "o">>,
                    <<"a">>, <<"i", "n">>, <<"i", "s">>, <<"i", "t">>,
                    <<"y", "o", "u">>, <<"t", "h", "a", "t">>, <<"h", "e">> >>

detect_language(text) ==
    LET text_lower == Lower(text)
        italian_count == Cardinality({i \in 1..Len(italian_words) :
                                        Contains(text_lower, italian_words[i])})
        english_count == Cardinality({i \in 1..Len(english_words) :
                                        Contains(text_lower, english_words[i])})
    IN IF italian_count > english_count THEN "it" ELSE "en"

(***************************************************************************)
(* Dicts.                                                                  *)
(***************************************************************************)
EmptyDict == [k \in {} |-> 0]

\* d[k] = v
Put(d, k, v) == [x \in DOMAIN d \cup {k} |-> IF x = k THEN v ELSE d[x]]

\* d.get(k, default)
Get(d, k, default) == IF k \in DOMAIN d THEN d[k] ELSE default

\* bool(d.get(k)) for a text or list valued key
Truthy(d, k) == k \in DOMAIN d /\ d[k] # <<>>

(***************************************************************************)
(* Replies of the chat-completion endpoint: the environment picks one per  *)
(* call. A reply that is not ok stands for any exception of the call       *)
(* (network error, timeout, non-2xx).                                      *)
(***************************************************************************)
AiFailure == [ok |-> FALSE, content |-> <<>>]

AiSummaryReplies ==
    {AiFailure,
     [ok |-> TRUE, content |-> <<" ", "r", "i", "a", "s", "s", "u", "n", "t", "o", " ", "\n">>]}

AiKeywordReplies ==
    {AiFailure,
     [ok |-> TRUE, content |-> <<"g", "a", "t", "t", "o", ",", " ", "p", "e", "s", "c", "e", ",">>]}

\* results of a call that may raise
Ok(v) == [raised |-> FALSE, value |-> v]
Raise(msg) == [raised |-> TRUE, value |-> msg]

(***************************************************************************)
(* ai_service.py: AI-backed analysers with their fallback.                 *)
(***************************************************************************)
\* variant: the failure of the AI call leaves generate_summary
generate_summary_raising(text, api_key, reply) ==
    IF ~api_key THEN Ok(generate_simple_summary(text))
    ELSE IF reply.ok THEN Ok(Strip(reply.content))
    ELSE Raise("Connection error.")

generate_summary(text, api_key, reply) ==
    IF ~api_key THEN Ok(generate_simple_summary(text))
    ELSE IF reply.ok THEN Ok(Strip(reply.content))
    ELSE Ok(generate_simple_summary(text))

extract_keywords(text, api_key, reply) ==
    IF ~api_key THEN Ok(extract_simple_keywords(text))
    ELSE IF reply.ok
         THEN LET parts == Split(Strip(reply.content), ",")
                  stripped == [i \in 1..Len(parts) |-> Strip(parts[i])]
              IN Ok(SelectSeq(stripped, LAMBDA kw : kw # <<>>))
    ELSE Ok(extract_simple_keywords(text))

(***************************************************************************)
(* JSON values as json.loads returns them, tagged by their Python type; a  *)
(* text that is not JSON is Unparseable (json.loads raises).               *)
(***************************************************************************)
JList(items) == [json |-> "list", items |-> items]
JDict(fields) == [json |-> "dict", fields |-> fields]
Unparseable == [json |-> "invalid"]

\* str(i) of a small number
str(i) == <<"0", "1", "2", "3", "4", "5", "6", "7", "8", "9">>[i + 1]

\* the orders in which a set can be iterated
Perms(S) ==
    {f \in [1..Cardinality(S) -> S] :
        \A i, j \in 1..Cardinality(S) : i # j => f[i] # f[j]}

(***************************************************************************)
(* ai_service.py: generators with their fallback.                          *)
(***************************************************************************)
SubstantialLen == 20
QuotedLen == 50

QuestionPrefix == <<"W", "h", "a", "t", " ", "i", "s", " ", "m", "e", "n",
                    "t", "i", "o", "n", "e", "d", " ", "i", "n", ":", " ",
                    "'">>

QuestionSuffix == <<".", ".", ".", "'", "?">>

simple_question(sentence) ==
    [question |-> QuestionPrefix \o Prefix(sentence, QuotedLen) \o QuestionSuffix,
     options |-> <<"Option A", "Option B", "Option C", "Option D">>,
     correct_answer |-> 0,
     explanation |-> "This is a placeholder explanation.",
     difficulty |-> "medium"]

\* variant: the length check of line 236 is left out
generate_simple_quiz_unfiltered(content, num_questions) ==
    LET parts == Split(content, ".")
        stripped == [i \in 1..Len(parts) |-> Strip(parts[i])]
        sentences == SelectSeq(stripped, LAMBDA x : x # <<>>)
        first == SubSeq(sentences, 1, Min(num_questions, Len(sentences)))
    IN [i \in 1..Len(first) |-> simple_question(first[i])]

generate_simple_quiz(content, num_questions) ==
    LET parts == Split(content, ".")
        stripped == [i \in 1..Len(parts) |-> Strip(parts[i])]
        sentences == SelectSeq(stripped, LAMBDA x : x # <<>>)
        first == SubSeq(sentences, 1, Min(num_questions, Len(sentences)))
        substantial == SelectSeq(first, LAMBDA x : Len(x) > SubstantialLen)
    IN [i \in 1..Len(substantial) |-> simple_question(substantial[i])]

\* replies of the endpoint to the quiz prompt
AiQuestionText == <<"C", "h", "i", "?">>

\* a question with the structure the prompt asks for (lines 141-147)
PromptQuestion ==
    [question |-> AiQuestionText,
     options |-> <<"il gatto", "il pesce", "la casa", "nessuno">>,
     correct_answer |-> 0,
     explanation |-> "Il gatto mangia.",
     difficulty |-> "medium"]

TypedQuestion ==
    [type |-> "multiple-choice",
     question |-> AiQuestionText,
     options |-> <<"il gatto", "il pesce", "la casa", "nessuno">>,
     correct_answer |-> 0,
     explanation |-> "Il gatto mangia.",
     difficulty |-> "medium"]

AiJsonFailure == [ok |-> FALSE, json |-> Unparseable]

AiQuizReplies ==
    {AiJsonFailure,
     [ok |-> TRUE, json |-> Unparseable],
     [ok |-> TRUE, json |-> JList(<<TypedQuestion>>)],
     [ok |-> TRUE, json |-> JList(<<PromptQuestion>>)],
     [ok |-> TRUE, json |-> JList(<<[question |-> AiQuestionText]>>)],
     [ok |-> TRUE, json |-> JDict([error |-> "no content"])]}

generate_quiz_questions(content, num_questions, api_key, reply) ==
    IF ~api_key THEN JList(generate_simple_quiz(content, num_questions))
    ELSE IF reply.ok /\ reply.json # Unparseable THEN reply.json
    ELSE JList(generate_simple_quiz(content, num_questions))

ConceptMinLen == 4
MaxConcepts == 10
MainConcepts == 3
GridColumns == 3
GridStep == 100

\* the words of the concept map: the set of the words longer than ConceptMinLen
concept_words(content) ==
    LET words == Words(Lower(content))
    IN {words[i] : i \in {j \in 1..Len(words) : Len(words[j]) > ConceptMinLen}}

\* str.title()
Title(word) ==
    [i \in 1..Len(word) |->
        IF i = 1 \/ word[i - 1] \notin Letters
        THEN UpperChar(word[i]) ELSE LowerChar(word[i])]

DescriptionPrefix == <<"C", "o", "n", "c", "e", "p", "t", " ", "r", "e",
                       "l", "a", "t", "e", "d", " ", "t", "o", " ">>

\* variant: one connection per node (range(len(nodes))), the last one to an id
\* that is not there
generate_simple_concept_map_closing(ordered) ==
    LET unique_words == SubSeq(ordered, 1, Min(MaxConcepts, Len(ordered)))
        nodes == [n \in 1..Len(unique_words) |->
                    LET i == n - 1
                    IN [id |-> str(i),
                        label |-> Title(unique_words[n]),
                        type |-> IF i < MainConcepts THEN "main" ELSE "sub",
                        x |-> (i % GridColumns) * GridStep,
                        y |-> (i \div GridColumns) * GridStep,
                        description |-> DescriptionPrefix \o unique_words[n]]]
        connections == [n \in 1..Len(nodes) |->
                          [from |-> str(n - 1), to |-> str(n),
                           label |-> "related to", type |-> "direct"]]
    IN JDict([nodes |-> nodes, connections |-> connections])

\* lines 252-280; `ordered` is the order in which list(set(...)) yields the words
generate_simple_concept_map(ordered) ==
    LET unique_words == SubSeq(ordered, 1, Min(MaxConcepts, Len(ordered)))
        nodes == [n \in 1..Len(unique_words) |->
                    LET i == n - 1
                    IN [id |-> str(i),
                        label |-> Title(unique_words[n]),
                        type |-> IF i < MainConcepts THEN "main" ELSE "sub",
                        x |-> (i % GridColumns) * GridStep,
                        y |-> (i \div GridColumns) * GridStep,
                        description |-> DescriptionPrefix \o unique_words[n]]]
        connections == [n \in 1..(Len(nodes) - 1) |->
                          [from |-> str(n - 1), to |-> str(n),
                           label |-> "related to", type |-> "direct"]]
    IN JDict([nodes |-> nodes, connections |-> connections])

AiLabel == <<"G", "a", "t", "t", "o">>

AiNode(id) == [id |-> id, label |-> AiLabel, type |-> "main", x |-> 0, y |-> 0,
               description |-> <<"D">>]

AiMapReplies ==
    {AiJsonFailure,
     [ok |-> TRUE, json |-> Unparseable],
     [ok |-> TRUE, json |-> JDict([nodes |-> <<AiNode("1"), AiNode("2")>>,
                                   connections |-> <<[from |-> "1", to |-> "2",
                                                      label |-> "relationship",
                                                      type |-> "hierarchical"]>>])],
     [ok |-> TRUE, json |-> JDict([nodes |-> <<AiNode("1")>>,
                                   connections |-> <<[from |-> "1", to |-> "7"]>>])],
     [ok |-> TRUE, json |-> JDict([nodes |-> <<[id |-> "1"]>>])],
     [ok |-> TRUE, json |-> JList(<<AiNode("1")>>)]}

\* lines 171-209: there is no key check; without a key the call of the endpoint
\* raises and the except branch falls back
generate_concept_map(ordered, api_key, reply) ==
    IF ~api_key THEN generate_simple_concept_map(ordered)
    ELSE IF reply.ok /\ reply.json # Unparseable THEN reply.json
    ELSE generate_simple_concept_map(ordered)

(***************************************************************************)
(* Files (the bytes a client submits). `format` is what the bytes really   *)
(* are; the declared upload type is chosen by the client.                  *)
(***************************************************************************)
TxtIt == <<"I", "l", " ", "g", "a", "t", "t", "o", " ", "m", "a", "n", "g", "i",
           "a", " ", "p", "e", "s", "c", "e", ".", " ", "O", "k", ".">>

PdfPage1 == <<"t", "h", "e", " ", "c", "a", "t", " ", "i", "s", " ", "i", "n", ".",
              " ">>

PdfPage2 == <<"i", "t", " ", "r", "u", "n", "s", "\n">>

TxtOcr == <<" ", "l", "a", " ", "c", "a", "s", "a", "\n">>

VideoPlaceholder == <<"V", "i", "d", "e", "o", " ", "t", "e", "x", "t", " ", "e", "x",
                      "t", "r", "a", "c", "t", "i", "o", "n", " ", "n", "o", "t", " ",
                      "i", "m", "p", "l", "e", "m", "e", "n", "t", "e", "d", " ", "y",
                      "e", "t">>

MAX_FILE_SIZE == 104857600

ALLOWED_FILE_TYPES == {"pdf", "doc", "docx", "txt", "jpg", "jpeg",
                       "png", "gif", "mp4", "avi", "mov"}

File(ext, format, text, pages, size) ==
    [ext |-> ext, format |-> format, text |-> text, pages |-> pages,
     width |-> 640, height |-> 480, size |-> size]

TextFile == File("txt", "text", TxtIt, <<>>, Len(TxtIt))
EmptyFile == File("txt", "text", <<>>, <<>>, 0)
PdfFile == File("pdf", "pdf", <<>>, <<PdfPage1, PdfPage2>>, 2048)
CorruptFile == File("pdf", "binary", <<>>, <<>>, 512)
ImageFile == File("png", "image", TxtOcr, <<>>, 4096)
VideoFile == File("mp4", "video", <<>>, <<>>, 8192)
ExeFile == File("exe", "binary", <<>>, <<>>, 512)
HugeFile == File("mp4", "video", <<>>, <<>>, MAX_FILE_SIZE + 1)

\* what clients submit: a declared type with a file
Submissions ==
    {[type |-> "text", file |-> TextFile],
     [type |-> "text", file |-> EmptyFile],
     [type |-> "text", file |-> CorruptFile],
     [type |-> "pdf", file |-> PdfFile],
     [type |-> "pdf", file |-> CorruptFile],
     [type |-> "image", file |-> ImageFile],
     [type |-> "image", file |-> CorruptFile],
     [type |-> "video", file |-> VideoFile],
     [type |-> "link", file |-> TextFile],
     [type |-> "text", file |-> ExeFile],
     [type |-> "video", file |-> HugeFile]}

\* the runs explored: every submission on a deployment without API key and S3,
\* and the text file on each other deployment
Scenarios ==
    {[settings |-> [OPENAI_API_KEY |-> FALSE, S3 |-> FALSE], submitted |-> sub] :
        sub \in Submissions}
    \cup {[settings |-> st, submitted |-> [type |-> "text", file |-> TextFile]] :
            st \in [OPENAI_API_KEY : BOOLEAN, S3 : BOOLEAN]}

(***************************************************************************)
(* ai_service.py: extractors.                                              *)
(***************************************************************************)
RECURSIVE PdfText(_)
PdfText(pages) ==
    IF pages = <<>> THEN <<>> ELSE Head(pages) \o <<"\n">> \o PdfText(Tail(pages))

extract_pdf_text(file_content) ==
    IF file_content.format = "pdf" THEN Ok(Strip(PdfText(file_content.pages)))
    ELSE Raise("Failed to extract PDF text: EOF marker not found")

count_pdf_pages(file_content) ==
    IF file_content.format = "pdf" THEN Ok(Len(file_content.pages))
    ELSE Raise("Failed to count PDF pages: EOF marker not found")

extract_image_text(file_content) ==
    IF file_content.format = "image" THEN Ok(Strip(file_content.text))
    ELSE Raise("Failed to extract image text: cannot identify image file")

get_image_dimensions(file_content) ==
    IF file_content.format = "image"
    THEN Ok([width |-> file_content.width, height |-> file_content.height])
    ELSE Raise("Failed to get image dimensions: cannot identify image file")

extract_video_text(file_content) == Ok(VideoPlaceholder)

get_video_duration(file_content) == Ok(0)

\* bytes.decode('utf-8')
decode_utf8(file_content) ==
    IF file_content.format = "text" THEN Ok(file_content.text)
    ELSE Raise("'utf-8' codec can't decode byte 0xff in position 0: invalid start byte")

(***************************************************************************)
(* upload_service.py: _extract_metadata. A step that raises ends the try   *)
(* block; `except Exception: pass` swallows it and the metadata gathered   *)
(* so far is returned. `raised` records that a step raised, `propagated`   *)
(* the exception leaving the method (none: it is swallowed).               *)
(***************************************************************************)
NoExc == ""

Extracted(file_content, file_type, metadata) ==
    CASE file_type = "pdf" ->
            LET text == extract_pdf_text(file_content)
                pages == count_pdf_pages(file_content)
            IN IF text.raised THEN [raised |-> TRUE, metadata |-> metadata]
               ELSE IF pages.raised
                    THEN [raised |-> TRUE,
                          metadata |-> Put(metadata, "extracted_text", text.value)]
               ELSE [raised |-> FALSE,
                     metadata |-> Put(Put(metadata, "extracted_text", text.value),
                                      "pages", pages.value)]
      [] file_type = "image" ->
            LET text == extract_image_text(file_content)
                dimensions == get_image_dimensions(file_content)
            IN IF text.raised THEN [raised |-> TRUE, metadata |-> metadata]
               ELSE IF dimensions.raised
                    THEN [raised |-> TRUE,
                          metadata |-> Put(metadata, "extracted_text", text.value)]
               ELSE [raised |-> FALSE,
                     metadata |-> Put(Put(metadata, "extracted_text", text.value),
                                      "dimensions", dimensions.value)]
      [] file_type = "video" ->
            LET text == extract_video_text(file_content)
                duration == get_video_duration(file_content)
            IN [raised |-> FALSE,
                metadata |-> Put(Put(metadata, "extracted_text", text.value),
                                 "duration", duration.value)]
      [] file_type = "text" ->
            LET text == decode_utf8(file_content)
            IN IF text.raised THEN [raised |-> TRUE, metadata |-> metadata]
               ELSE [raised |-> FALSE,
                     metadata |-> Put(metadata, "extracted_text", text.value)]
      [] OTHER -> [raised |-> FALSE, metadata |-> metadata]

Analysed(metadata, api_key, ai) ==
    LET text == metadata["extracted_text"]
        summary == generate_summary(text, api_key, ai.summary)
        keywords == extract_keywords(text, api_key, ai.keywords)
    IN IF summary.raised \/ keywords.raised
       THEN [raised |-> TRUE, metadata |-> metadata]
       ELSE [raised |-> FALSE,
             metadata |-> Put(Put(Put(metadata, "summary", summary.value),
                                  "keywords", keywords.value),
                              "language", detect_language(text))]

\* the replies the analysers consumed: none unless they called the endpoint
NoAi == [summary |-> AiFailure, keywords |-> AiFailure, called |-> FALSE]

\* the second part of the try block: the analysers, run on a non-empty text
AnalysedIfText(extracted, api_key, ai) ==
    IF ~extracted.raised /\ Truthy(extracted.metadata, "extracted_text")
    THEN Let(Analysed(extracted.metadata, api_key, ai),
             LAMBDA a : [metadata |-> a.metadata, raised |-> a.raised,
                         ai |-> IF api_key THEN ai ELSE NoAi])
    ELSE [metadata |-> extracted.metadata, raised |-> extracted.raised, ai |-> NoAi]

\* variant: without the `except Exception: pass`, a raising step leaves the method
extract_metadata_propagating(file_content, file_type, api_key, ai) ==
    LET metadata == [keywords |-> <<>>, language |-> "it"]
    IN Let(Extracted(file_content, file_type, metadata),
           LAMBDA e : Let(AnalysedIfText(e, api_key, ai),
                          LAMBDA r : [metadata |-> r.metadata, raised |-> r.raised,
                                      propagated |-> IF r.raised THEN "a step raised"
                                                     ELSE NoExc,
                                      ai |-> r.ai]))

extract_metadata(file_content, file_type, api_key, ai) ==
    LET metadata == [keywords |-> <<>>, language |-> "it"]
    IN Let(Extracted(file_content, file_type, metadata),
           LAMBDA e : Let(AnalysedIfText(e, api_key, ai),
                          LAMBDA r : [metadata |-> r.metadata, raised |-> r.raised,
                                      propagated |-> NoExc, ai |-> r.ai]))

(***************************************************************************)
(* State.                                                                  *)
(***************************************************************************)
VARIABLES
    settings,   \* core/config.py: process-wide configuration, fixed at start
    submitted,  \* the declared type and file the clients of this run submit
    uploads,    \* the uploads table: id -> row
    storage,    \* the blob store: url -> file
    nextId,     \* ids are fresh (uuid4): the next unused one
    clock,      \* datetime.utcnow()
    served,     \* the number of requests served so far
    pc,         \* per request handler: where it stands
    req,        \* per request handler: the request in flight
    loc,        \* per request handler: its session's objects and locals
    resp,       \* the last response a handler returned
    quizzes,    \* the quizzes table with the questions of each quiz
    concept_maps, \* the concept_maps table with the nodes and connections of each map
    concept_nodes, \* the concept_nodes table: id -> row (a deleted row leaves its id unused)
    concept_connections, \* the concept_connections table: id -> row
    users,      \* the users table: id -> row
    issued      \* the tokens handed out to clients so far

\* the tables of generated content
generated == <<quizzes, concept_maps, concept_nodes, concept_connections>>

\* the accounts and the tokens issued for them
accounts == <<users, issued>>

vars == <<settings, submitted, uploads, storage, nextId, clock, served, pc, req, loc, resp,
          quizzes, concept_maps, concept_nodes, concept_connections, users, issued>>

Procs == {1, 2}

\* the handler slot a new request occupies: the lowest idle one
Free(p) == pc[p] = "idle" /\ \A q \in Procs : q < p => pc[q] # "idle"
Users == {"u1", "u2"}
UploadIds == 1..MaxRequests
UploadTypes == {"pdf", "image", "text", "video", "link"}
UploadStatuses == {"processing", "completed", "failed"}
NoTime == 0

S3Replies == {"ok", "An error occurred (NoSuchKey) when calling the GetObject operation"}

\* a request on uploads: the operation, the authenticated user and the arguments
Request(op, user_id, upload_id, force_reprocess) ==
    [op |-> op, user |-> user_id, id |-> upload_id, force |-> force_reprocess]

IdleReq == Request("none", "none", 0, FALSE)
NoLoc == [found |-> FALSE]
NoResp == [request |-> IdleReq, kind |-> "none", value |-> EmptyDict]

\* the response to a request: the value returned or the exception raised
Return(request, value) == [request |-> request, kind |-> "return", value |-> value]

RaiseOut(request, exc, msg) ==
    [request |-> request, kind |-> "raise", value |-> [exc |-> exc, message |-> msg]]

PyNone == [none |-> TRUE]
PyBool(b) == [bool |-> b]

Url(scheme, key) == [scheme |-> scheme, key |-> key]

Remove(f, k) == [x \in DOMAIN f \ {k} |-> f[x]]

\* one more request is served
Serve == served < MaxRequests /\ served' = served + 1

(***************************************************************************)
(* models/user.py, core/security.py: accounts and password hashes.         *)
(***************************************************************************)
Emails == {"a@x.it", "b@x.it"}
Passwords == {"password-1", "password-2"}
Name == "Ann"

\* pwd_context.hash: a digest that only the password it was made from verifies
get_password_hash(password) == [scheme |-> "bcrypt", of |-> password]

\* pwd_context.verify
verify_password(plain_password, hashed_password) == hashed_password.of = plain_password

\* a users row; hashed_password is None for an account created through OAuth
User(id, email, name, hashed_password, last_login_at) ==
    [id |-> id, email |-> email, name |-> name, hashed_password |-> hashed_password,
     is_active |-> TRUE, last_login_at |-> last_login_at]

\* the accounts of the two users of the upload and generation requests
Accounts ==
    [u \in Users |->
        User(u, IF u = "u1" THEN "a@x.it" ELSE "b@x.it", Name,
             get_password_hash("password-1"), NoTime)]

Init ==
    /\ \E sc \in Scenarios : settings = sc.settings /\ submitted = sc.submitted
    /\ uploads = EmptyDict
    /\ storage = EmptyDict
    /\ nextId = 1
    /\ clock = 1
    /\ served = 0
    /\ pc = [p \in Procs |-> "idle"]
    /\ req = [p \in Procs |-> IdleReq]
    /\ loc = [p \in Procs |-> NoLoc]
    /\ resp = NoResp
    /\ quizzes = <<>>
    /\ concept_maps = <<>>
    /\ concept_nodes = <<>>
    /\ concept_connections = <<>>
    /\ users = Accounts
    /\ issued = {}

(***************************************************************************)
(* storage_service.py                                                      *)
(***************************************************************************)
\* the url upload_file returns for a new file
upload_url(key) == IF settings.S3 THEN Url("s3", key) ELSE Url("local", key)

download_file(url, s3_reply) ==
    IF url.scheme = "s3"
    THEN IF ~settings.S3 THEN Raise("S3: S3 client not configured")
         ELSE IF s3_reply = "ok" /\ url \in DOMAIN storage THEN Ok(storage[url])
         ELSE Raise("S3: " \o s3_reply)
    ELSE IF url \in DOMAIN storage THEN Ok(storage[url])
         ELSE Raise("[Errno 2] No such file or directory")

(***************************************************************************)
(* upload_service.py                                                       *)
(***************************************************************************)
\* variant: the query filters by id only
get_upload_unfiltered(upload_id, user_id) ==
    IF upload_id \in DOMAIN uploads THEN uploads[upload_id] ELSE PyNone

\* db.query(Upload).filter(Upload.id == upload_id, Upload.user_id == user_id).first()
get_upload(upload_id, user_id) ==
    IF upload_id \in DOMAIN uploads /\ uploads[upload_id].user_id = user_id
    THEN uploads[upload_id]
    ELSE PyNone

get_upload_status(upload_id, user_id) ==
    LET upload == get_upload(upload_id, user_id)
    IN IF upload = PyNone THEN PyNone
       ELSE [id |-> upload_id,
             status |-> upload.status,
             processing_error |-> upload.processing_error,
             processed_at |-> upload.processed_at,
             metadata |-> upload.metadata]

NewUpload(user_id, type, size, url) ==
    [user_id |-> user_id, type |-> type, size |-> size, url |-> url,
     status |-> "processing", processing_error |-> None, processed_at |-> NoTime,
     metadata |-> EmptyDict]

\* create_upload, up to the call of _process_file_async
CreateUpload(p, user_id, s3_reply) ==
    LET sub == submitted
        file == sub.file
        url == upload_url(nextId)
        rejected == Request("create_upload", user_id, 0, FALSE)
    IN /\ Free(p)
       /\ Serve
       /\ IF file.ext \notin ALLOWED_FILE_TYPES
          THEN /\ resp' = RaiseOut(rejected, "FileProcessingError",
                                   "File type not allowed")
               /\ UNCHANGED <<uploads, storage, nextId, pc, req>>
          ELSE IF file.size > MAX_FILE_SIZE
          THEN /\ resp' = RaiseOut(rejected, "FileProcessingError",
                                   "File size exceeds maximum allowed size")
               /\ UNCHANGED <<uploads, storage, nextId, pc, req>>
          ELSE IF settings.S3 /\ s3_reply # "ok"
          THEN /\ resp' = RaiseOut(rejected, "CloudServiceError",
                                   "S3: " \o s3_reply)
               /\ UNCHANGED <<uploads, storage, nextId, pc, req>>
          ELSE /\ storage' = Put(storage, url, file)
               /\ uploads' = Put(uploads, nextId,
                                 NewUpload(user_id, sub.type, file.size, url))
               /\ nextId' = nextId + 1
               /\ pc' = [pc EXCEPT ![p] = "process"]
               /\ req' = [req EXCEPT ![p] = Request("create_upload", user_id, nextId, FALSE)]
               /\ UNCHANGED resp
       /\ UNCHANGED <<generated, accounts, settings, submitted, clock, loc>>

import_cloud_file(user_id, type) ==
    LET upload == NewUpload(user_id, type, 1024, Url("cloud", nextId))
    IN /\ Serve
       /\ uploads' = Put(uploads, nextId, upload)
       /\ nextId' = nextId + 1
       /\ resp' = Return(Request("import_cloud_file", user_id, nextId, FALSE), upload)
       /\ UNCHANGED <<generated, accounts, settings, submitted, storage, clock, pc, req, loc>>

GetUpload(upload_id, user_id) ==
    /\ resp' = Return(Request("get_upload", user_id, upload_id, FALSE),
                      get_upload(upload_id, user_id))
    /\ Serve
    /\ UNCHANGED <<generated, accounts, settings, submitted, uploads, storage, nextId, clock, pc, req, loc>>

GetUploadStatus(upload_id, user_id) ==
    /\ resp' = Return(Request("get_upload_status", user_id, upload_id, FALSE),
                      get_upload_status(upload_id, user_id))
    /\ Serve
    /\ UNCHANGED <<generated, accounts, settings, submitted, uploads, storage, nextId, clock, pc, req, loc>>

delete_upload(upload_id, user_id, s3_reply) ==
    LET upload == get_upload(upload_id, user_id)
        request == Request("delete_upload", user_id, upload_id, FALSE)
    IN /\ IF upload = PyNone
          THEN /\ resp' = Return(request, PyBool(FALSE))
               /\ UNCHANGED <<uploads, storage>>
          ELSE IF upload.url.scheme = "s3" /\ s3_reply # "ok"
          THEN /\ resp' = RaiseOut(request, "CloudServiceError", "S3: " \o s3_reply)
               /\ UNCHANGED <<uploads, storage>>
          ELSE /\ storage' = Remove(storage, upload.url)
               /\ uploads' = Remove(uploads, upload_id)
               /\ resp' = Return(request, PyBool(TRUE))
       /\ Serve
       /\ UNCHANGED <<generated, accounts, settings, submitted, nextId, clock, pc, req, loc>>

\* variant: process_upload without the test of lines 120-121
process_upload_rerunning(p, upload_id, user_id, force_reprocess) ==
    LET upload == get_upload(upload_id, user_id)
        request == Request("process_upload", user_id, upload_id, force_reprocess)
    IN /\ Free(p)
       /\ Serve
       /\ IF upload = PyNone
          THEN /\ resp' = Return(request, PyBool(FALSE))
               /\ UNCHANGED <<uploads, pc, req>>
          ELSE /\ uploads' = [uploads EXCEPT ![upload_id].status = "processing"]
               /\ pc' = [pc EXCEPT ![p] = "process"]
               /\ req' = [req EXCEPT ![p] = request]
               /\ UNCHANGED resp
       /\ UNCHANGED <<generated, accounts, settings, submitted, storage, nextId, clock, loc>>

\* process_upload, up to the call of _process_file_async
process_upload(p, upload_id, user_id, force_reprocess) ==
    LET upload == get_upload(upload_id, user_id)
        request == Request("process_upload", user_id, upload_id, force_reprocess)
    IN /\ Free(p)
       /\ Serve
       /\ IF upload = PyNone
          THEN /\ resp' = Return(request, PyBool(FALSE))
               /\ UNCHANGED <<uploads, pc, req>>
          ELSE IF upload.status = "completed" /\ ~force_reprocess
          THEN /\ resp' = Return(request, PyBool(TRUE))
               /\ UNCHANGED <<uploads, pc, req>>
          ELSE /\ uploads' = [uploads EXCEPT ![upload_id].status = "processing"]
               /\ pc' = [pc EXCEPT ![p] = "process"]
               /\ req' = [req EXCEPT ![p] = request]
               /\ UNCHANGED resp
       /\ UNCHANGED <<generated, accounts, settings, submitted, storage, nextId, clock, loc>>

\* the row create_upload inserted and refreshed (lines 50-62): its session's
\* object, which the query of _process_file_async returns unchanged
Created(p) ==
    NewUpload(req[p].user, submitted.type, submitted.file.size, upload_url(req[p].id))

\* what the caller of _process_file_async returns once it is back: process_upload
\* True (line 131), create_upload its object, whose attributes are `row`
Returned(p, row) ==
    IF req[p].op = "process_upload"
    THEN Return(req[p], PyBool(TRUE))
    ELSE Return(req[p], row)

\* the row the session of handler p holds when _process_file_async queries it
Loaded(p) ==
    IF req[p].op = "create_upload" THEN Created(p) ELSE uploads[req[p].id]

\* the try block of _process_file_async up to the assignments: what the session
\* holds when it reaches them (ok) or the except branch (not ok)
Attempt(upload, s3_reply, ai) ==
    LET file_content == download_file(upload.url, s3_reply)
    IN IF file_content.raised
       THEN [found |-> TRUE, upload |-> upload, ok |-> FALSE,
             error |-> file_content.value, ai |-> NoAi,
             raised |-> FALSE, metadata |-> EmptyDict]
       ELSE Let(extract_metadata(file_content.value, upload.type,
                                 settings.OPENAI_API_KEY, ai),
                LAMBDA extracted :
                    IF extracted.propagated # NoExc
                    THEN [found |-> TRUE, upload |-> upload, ok |-> FALSE,
                          error |-> extracted.propagated, ai |-> extracted.ai,
                          raised |-> TRUE, metadata |-> EmptyDict]
                    ELSE [found |-> TRUE, upload |-> upload, ok |-> TRUE,
                          error |-> NoExc, ai |-> extracted.ai,
                          raised |-> extracted.raised,
                          metadata |-> extracted.metadata])

\* _process_file_async, lines 142-151: load the row, download, extract
ProcessFile(p, s3_reply, ai) ==
    LET upload_id == req[p].id
    IN /\ pc[p] = "process"
       /\ IF upload_id \notin DOMAIN uploads
          THEN /\ resp' = Returned(p, Created(p))
               /\ pc' = [pc EXCEPT ![p] = "idle"]
               /\ req' = [req EXCEPT ![p] = IdleReq]
               /\ UNCHANGED loc
          ELSE /\ loc' = [loc EXCEPT ![p] = Attempt(Loaded(p), s3_reply, ai)]
               /\ pc' = [pc EXCEPT ![p] = "commit"]
               /\ UNCHANGED <<req, resp>>
       /\ UNCHANGED <<generated, accounts, settings, submitted, uploads, storage, nextId, clock, served>>

\* variant: the UPDATE writes the metadata key by key, each key whose assigned
\* value differs from the value the session loaded
Flush_merging_metadata(row, loaded, assigned) ==
    [c \in DOMAIN row |->
        IF c \notin DOMAIN assigned \/ assigned[c] = loaded[c] THEN row[c]
        ELSE IF c # "metadata" THEN assigned[c]
        ELSE [k \in DOMAIN row[c] \cup DOMAIN assigned[c] |->
                IF k \in DOMAIN assigned[c]
                   /\ (k \notin DOMAIN loaded[c] \/ k \notin DOMAIN row[c]
                        \/ assigned[c][k] # loaded[c][k])
                THEN assigned[c][k] ELSE row[c][k]]]

\* the UPDATE a commit emits: the columns whose assigned value differs from the
\* value the session loaded
Flush(row, loaded, assigned) ==
    [c \in DOMAIN row |->
        IF c \in DOMAIN assigned /\ assigned[c] # loaded[c] THEN assigned[c] ELSE row[c]]

\* variant: a rerun keeps the metadata the row already has
Assigned_keeping_metadata(l, now) ==
    IF l.ok
    THEN [metadata |-> IF l.upload.metadata = EmptyDict THEN l.metadata
                       ELSE l.upload.metadata,
          status |-> "completed", processed_at |-> now]
    ELSE [status |-> "failed", processing_error |-> l.error]

\* variant: the except branch sets the status only
Assigned_without_error(l, now) ==
    IF l.ok
    THEN [metadata |-> l.metadata, status |-> "completed", processed_at |-> now]
    ELSE [status |-> "failed"]

\* variant: the status is committed before the metadata is assigned
Assigned_status_first(l, now) ==
    IF l.ok
    THEN [status |-> "completed", processed_at |-> now]
    ELSE [status |-> "failed", processing_error |-> l.error]

\* the attributes _process_file_async assigns before its commit
Assigned(l, now) ==
    IF l.ok
    THEN [metadata |-> l.metadata, status |-> "completed", processed_at |-> now]
    ELSE [status |-> "failed", processing_error |-> l.error]

\* _process_file_async, lines 153-162, and the return of its caller
CommitAttempt(p) ==
    LET upload_id == req[p].id
    IN /\ pc[p] = "commit"
       /\ IF upload_id \notin DOMAIN uploads
          THEN /\ resp' = RaiseOut(req[p], "SQLAlchemyError",
                                   "UPDATE statement on table 'uploads' matched 0 rows")
               /\ UNCHANGED uploads
          ELSE LET row == Flush(uploads[upload_id], loc[p].upload,
                                Assigned(loc[p], clock))
               IN /\ uploads' = [uploads EXCEPT ![upload_id] = row]
                  /\ resp' = Returned(p, row)
       /\ clock' = IF loc[p].ok THEN clock + 1 ELSE clock
       /\ pc' = [pc EXCEPT ![p] = "idle"]
       /\ req' = [req EXCEPT ![p] = IdleReq]
       /\ loc' = [loc EXCEPT ![p] = NoLoc]
       /\ UNCHANGED <<generated, accounts, settings, submitted, storage, nextId, served>>

(***************************************************************************)
(* quiz_service.py, exam_service.py, concept_map_service.py: generation    *)
(* from the text of the caller's uploads. The title, subject, tags and     *)
(* limits of a request are stored as given and left out.                   *)
(***************************************************************************)
GenRequest(op, user_id, source_upload_ids, num_questions) ==
    [op |-> op, user |-> user_id, ids |-> source_upload_ids, n |-> num_questions]

\* variant: the query without its filter on Upload.user_id
Selected_any_owner(user_id, source_upload_ids) ==
    DOMAIN uploads \cap source_upload_ids

\* Upload.id.in_(source_upload_ids), Upload.user_id == user_id
Selected(user_id, source_upload_ids) ==
    {id \in DOMAIN uploads \cap source_upload_ids : uploads[id].user_id = user_id}

\* the text of the rows in the order the query returned them
RECURSIVE SourceText(_)
SourceText(rows) ==
    IF rows = <<>> THEN <<>>
    ELSE LET metadata == uploads[Head(rows)].metadata
         IN (IF Truthy(metadata, "extracted_text")
             THEN metadata["extracted_text"] \o <<"\n">> ELSE <<>>)
            \o SourceText(Tail(rows))

\* the keys QuizQuestion(...) reads with ai_question[...], in the order read
QuestionKeys == <<"type", "question", "options", "correct_answer", "explanation",
                  "difficulty">>

DefaultPoints == 1

\* first key of `keys` the dict lacks, "" when it has them all
RECURSIVE MissingKey(_, _)
MissingKey(dict, keys) ==
    IF keys = <<>> THEN ""
    ELSE IF Head(keys) \notin DOMAIN dict THEN Head(keys)
    ELSE MissingKey(dict, Tail(keys))

QuizQuestion(ai_question) ==
    [type |-> ai_question["type"],
     question |-> ai_question["question"],
     options |-> ai_question["options"],
     correct_answer |-> ai_question["correct_answer"],
     explanation |-> ai_question["explanation"],
     difficulty |-> ai_question["difficulty"],
     points |-> IF "points" \in DOMAIN ai_question THEN ai_question["points"]
                ELSE DefaultPoints,
     ai_generated |-> TRUE]

\* the loop over ai_questions (quiz_service.py:199-212): the exception that ends
\* it, or none and the questions to commit
QuestionRows(ai_questions) ==
    IF ai_questions.json = "dict"
    THEN IF DOMAIN ai_questions.fields = {} THEN Ok(<<>>)
         ELSE [raised |-> TRUE, value |-> <<>>, exc |-> "TypeError",
               message |-> "string indices must be integers"]
    ELSE LET items == ai_questions.items
             bad == {i \in 1..Len(items) : MissingKey(items[i], QuestionKeys) # ""}
         IN IF bad = {}
            THEN Ok([i \in 1..Len(items) |-> QuizQuestion(items[i])])
            ELSE [raised |-> TRUE, value |-> <<>>, exc |-> "KeyError",
                  message |-> MissingKey(items[CHOOSE i \in bad : \A j \in bad : i <= j],
                                         QuestionKeys)]

generate_quiz(user_id, source_upload_ids, num_questions, rows, reply) ==
    LET request == GenRequest("generate_quiz", user_id, source_upload_ids, num_questions)
        content == SourceText(rows)
    IN /\ Serve
       /\ IF content = <<>>
          THEN /\ resp' = RaiseOut(request, "ValidationError",
                                   "No content available for quiz generation")
               /\ UNCHANGED quizzes
          ELSE LET ai_questions == generate_quiz_questions(content, num_questions,
                                                           settings.OPENAI_API_KEY, reply)
                   questions == QuestionRows(ai_questions)
                   quiz == [user_id |-> user_id, questions |-> questions.value]
               IN /\ quizzes' = Append(quizzes, quiz)
                  /\ resp' = IF questions.raised
                             THEN RaiseOut(request, questions.exc, questions.message)
                             ELSE Return(request, quiz)
       /\ UNCHANGED <<accounts, settings, submitted, uploads, storage, nextId, clock, pc, req, loc,
                      concept_maps, concept_nodes, concept_connections>>

\* generate_quiz_questions is called without await (exam_service.py:182): what
\* sum(...) iterates is a coroutine
generate_exam(user_id, source_upload_ids, num_questions, rows) ==
    LET request == GenRequest("generate_exam", user_id, source_upload_ids, num_questions)
        content == SourceText(rows)
    IN /\ Serve
       /\ resp' = IF content = <<>>
                  THEN RaiseOut(request, "ValidationError",
                                "No content available for exam generation")
                  ELSE RaiseOut(request, "TypeError", "'coroutine' object is not iterable")
       /\ UNCHANGED <<generated, accounts, settings, submitted, uploads, storage, nextId, clock,
                      pc, req, loc>>

DefaultColor == "#3B82F6"
DefaultStrength == 1

\* ConceptNode(...) of the i-th node of the reply, i counted from 0
ConceptNode(ai_node, i) ==
    [label |-> ai_node["label"],
     x |-> Get(ai_node, "x", i * GridStep),
     y |-> Get(ai_node, "y", i * GridStep),
     type |-> Get(ai_node, "type", "main"),
     color |-> Get(ai_node, "color", DefaultColor),
     description |-> Get(ai_node, "description", <<>>),
     examples |-> Get(ai_node, "examples", <<>>),
     ai_generated |-> TRUE]

\* node_id_mapping after the loop: the id of the reply -> the row of the node
NodeIdMapping(ai_nodes) ==
    [id \in {ai_nodes[i]["id"] : i \in 1..Len(ai_nodes)} |->
        CHOOSE i \in 1..Len(ai_nodes) :
            /\ ai_nodes[i]["id"] = id
            /\ \A j \in 1..Len(ai_nodes) : ai_nodes[j]["id"] = id => j <= i]

ConceptConnection(ai_connection, node_id_mapping) ==
    [from_node_id |-> node_id_mapping[ai_connection["from"]],
     to_node_id |-> node_id_mapping[ai_connection["to"]],
     label |-> Get(ai_connection, "label", ""),
     type |-> Get(ai_connection, "type", "direct"),
     strength |-> Get(ai_connection, "strength", DefaultStrength)]

\* variant: a connection is stored whether or not its endpoints resolve
\* (node_id_mapping.get without the check of line 290)
MapRows_keeping_unresolved(ai_concept_map) ==
    IF ai_concept_map.json = "list"
    THEN [raised |-> TRUE, nodes |-> <<>>, connections |-> <<>>, exc |-> "AttributeError",
          message |-> "'list' object has no attribute 'get'"]
    ELSE LET ai_nodes == Get(ai_concept_map.fields, "nodes", <<>>)
             ai_connections == Get(ai_concept_map.fields, "connections", <<>>)
             complete == /\ \A i \in 1..Len(ai_nodes) :
                               MissingKey(ai_nodes[i], <<"label", "id">>) = ""
                         /\ \A i \in 1..Len(ai_connections) :
                               MissingKey(ai_connections[i], <<"from", "to">>) = ""
         IN IF ~complete
            THEN [raised |-> TRUE, nodes |-> <<>>, connections |-> <<>>, exc |-> "KeyError",
                  message |-> "key"]
            ELSE LET node_id_mapping == NodeIdMapping(ai_nodes)
                 IN [raised |-> FALSE,
                     nodes |-> [i \in 1..Len(ai_nodes) |-> ConceptNode(ai_nodes[i], i - 1)],
                     connections |->
                        [i \in 1..Len(ai_connections) |->
                           [from_node_id |-> Get(node_id_mapping, ai_connections[i]["from"], 0),
                            to_node_id |-> Get(node_id_mapping, ai_connections[i]["to"], 0),
                            label |-> Get(ai_connections[i], "label", ""),
                            type |-> Get(ai_connections[i], "type", "direct"),
                            strength |-> Get(ai_connections[i], "strength", DefaultStrength)]],
                     exc |-> "", message |-> ""]

\* the two loops of generate_concept_map (concept_map_service.py:266-294): the
\* exception that ends them, or none and the rows to commit
MapRows(ai_concept_map) ==
    IF ai_concept_map.json = "list"
    THEN [raised |-> TRUE, nodes |-> <<>>, connections |-> <<>>, exc |-> "AttributeError",
          message |-> "'list' object has no attribute 'get'"]
    ELSE LET ai_nodes == Get(ai_concept_map.fields, "nodes", <<>>)
             ai_connections == Get(ai_concept_map.fields, "connections", <<>>)
             bad_nodes == {i \in 1..Len(ai_nodes) :
                             MissingKey(ai_nodes[i], <<"label", "id">>) # ""}
             bad_connections == {i \in 1..Len(ai_connections) :
                             MissingKey(ai_connections[i], <<"from", "to">>) # ""}
         IN IF bad_nodes # {}
            THEN [raised |-> TRUE, nodes |-> <<>>, connections |-> <<>>, exc |-> "KeyError",
                  message |-> MissingKey(ai_nodes[CHOOSE i \in bad_nodes :
                                                    \A j \in bad_nodes : i <= j],
                                         <<"label", "id">>)]
            ELSE IF bad_connections # {}
            THEN [raised |-> TRUE, nodes |-> <<>>, connections |-> <<>>, exc |-> "KeyError",
                  message |-> MissingKey(ai_connections[CHOOSE i \in bad_connections :
                                                    \A j \in bad_connections : i <= j],
                                         <<"from", "to">>)]
            ELSE LET node_id_mapping == NodeIdMapping(ai_nodes)
                     mapped == SelectSeq(ai_connections,
                                 LAMBDA c : /\ c["from"] \in DOMAIN node_id_mapping
                                            /\ c["to"] \in DOMAIN node_id_mapping)
                 IN [raised |-> FALSE,
                     nodes |-> [i \in 1..Len(ai_nodes) |-> ConceptNode(ai_nodes[i], i - 1)],
                     connections |-> [i \in 1..Len(mapped) |->
                                        ConceptConnection(mapped[i], node_id_mapping)],
                     exc |-> "", message |-> ""]

\* the rows of the concept_nodes table for the nodes of map number concept_map_id
NodeRows(concept_map_id, nodes) ==
    [i \in 1..Len(nodes) |-> [concept_map_id |-> concept_map_id, label |-> nodes[i].label]]

\* the rows of the concept_connections table for the connections of that map,
\* whose nodes got the ids after `before`
ConnectionRows(concept_map_id, before, connections) ==
    [i \in 1..Len(connections) |->
        [concept_map_id |-> concept_map_id,
         from_node_id |-> before + connections[i].from_node_id,
         to_node_id |-> before + connections[i].to_node_id,
         label |-> connections[i].label]]

\* ConceptMapService.generate_concept_map
GenerateConceptMap(user_id, source_upload_ids, rows, ordered, reply) ==
    LET request == GenRequest("generate_concept_map", user_id, source_upload_ids, 0)
        content == SourceText(rows)
    IN /\ Serve
       /\ IF content = <<>>
          THEN /\ resp' = RaiseOut(request, "ValidationError",
                                   "No content available for concept map generation")
               /\ UNCHANGED <<concept_maps, concept_nodes, concept_connections>>
          ELSE LET ai_concept_map == generate_concept_map(ordered, settings.OPENAI_API_KEY,
                                                          reply)
                   made == MapRows(ai_concept_map)
                   concept_map == [user_id |-> user_id, nodes |-> made.nodes,
                                   connections |-> made.connections]
               IN /\ concept_maps' = Append(concept_maps, concept_map)
                  /\ concept_nodes' = concept_nodes \o
                        NodeRows(Len(concept_maps) + 1, made.nodes)
                  /\ concept_connections' = concept_connections \o
                        ConnectionRows(Len(concept_maps) + 1, Len(concept_nodes),
                                       made.connections)
                  /\ resp' = IF made.raised
                             THEN RaiseOut(request, made.exc, made.message)
                             ELSE Return(request, concept_map)
       /\ UNCHANGED <<accounts, settings, submitted, uploads, storage, nextId, clock, pc, req, loc,
                      quizzes>>

AiReplies == [summary : AiSummaryReplies, keywords : AiKeywordReplies, called : {TRUE}]

\* the replies of calls the deployment makes
S3Env == IF settings.S3 THEN S3Replies ELSE {"ok"}
AiEnv == IF settings.OPENAI_API_KEY THEN AiReplies ELSE {NoAi}

\* the handlers of the upload pipeline
Pipeline ==
    \/ \E p \in Procs, u \in Users, r \in S3Env : CreateUpload(p, u, r)
    \/ \E u \in Users : import_cloud_file(u, submitted.type)
    \/ \E i \in UploadIds, u \in Users, r \in S3Env : delete_upload(i, u, r)
    \/ \E p \in Procs, i \in UploadIds, u \in Users, f \in BOOLEAN :
          process_upload(p, i, u, f)
    \/ \E p \in Procs, r \in S3Env, ai \in AiEnv : ProcessFile(p, r, ai)
    \/ \E p \in Procs : CommitAttempt(p)

Next == Pipeline

Spec == Init /\ [][Next]_vars

(***************************************************************************)
(* The API of a deployment on local storage whose clients submit the text  *)
(* file: the pipeline, the reads and the generation of content, without    *)
(* API key (SpecApi) and with one (SpecAi).                                *)
(***************************************************************************)
NumQuestions == {1, 2}

AiQuizEnv == IF settings.OPENAI_API_KEY THEN AiQuizReplies ELSE {AiJsonFailure}
AiMapEnv == IF settings.OPENAI_API_KEY THEN AiMapReplies ELSE {AiJsonFailure}

\* the orders in which the query of a generation, which has no ORDER BY, can
\* return the rows it selects
RowOrders(user_id, source_upload_ids) == Perms(Selected(user_id, source_upload_ids))

\* the orders in which list(set(...)) can yield the words of the rows' text
WordOrders(rows) == Perms(concept_words(SourceText(rows)))

Reads ==
    \/ \E i \in UploadIds, u \in Users : GetUpload(i, u)
    \/ \E i \in UploadIds, u \in Users : GetUploadStatus(i, u)

Generation ==
    \/ \E u \in Users, ids \in SUBSET UploadIds, n \in NumQuestions, r \in AiQuizEnv :
          \E rows \in RowOrders(u, ids) : generate_quiz(u, ids, n, rows, r)
    \/ \E u \in Users, ids \in SUBSET UploadIds, n \in NumQuestions :
          \E rows \in RowOrders(u, ids) : generate_exam(u, ids, n, rows)
    \/ \E u \in Users, ids \in SUBSET UploadIds, r \in AiMapEnv :
          \E rows \in RowOrders(u, ids) : \E ordered \in WordOrders(rows) :
             GenerateConceptMap(u, ids, rows, ordered, r)

InitApi ==
    /\ Init
    /\ settings = [OPENAI_API_KEY |-> FALSE, S3 |-> FALSE]
    /\ submitted = [type |-> "text", file |-> TextFile]

InitAi ==
    /\ Init
    /\ settings = [OPENAI_API_KEY |-> TRUE, S3 |-> FALSE]
    /\ submitted = [type |-> "text", file |-> TextFile]

NextApi == Pipeline \/ Reads \/ Generation

SpecApi == InitApi /\ [][NextApi]_vars

SpecAi == InitAi /\ [][NextApi]_vars

(***************************************************************************)
(* Properties of the upload pipeline (checked under Spec).                 *)
(***************************************************************************)
\* handler p commits its attempt on a row that is still there
Commits(p) == CommitAttempt(p) /\ req[p].id \in DOMAIN uploads

\* no other request wrote the row since handler p loaded it
Undisturbed(p) == uploads[req[p].id] = loc[p].upload

C4_Original ==
    resp.request.op = "create_upload" /\ resp.kind = "return" =>
        resp.value.status = "processing"

\* the keywords extract_keywords makes of the reply of the model's endpoint
AiKeywords == <<<<"g", "a", "t", "t", "o">>, <<"p", "e", "s", "c", "e">>>>

C9_FailedHasError ==
    \A id \in UploadIds, user \in Users :
        LET status == get_upload_status(id, user)
        IN status # PyNone /\ status.status = "failed" =>
              status.processing_error \notin {None, ""}

\* the owner polls an upload whose download from S3 failed
C9_Witness ==
    \E id \in UploadIds, user \in Users :
        LET status == get_upload_status(id, user)
        IN /\ status # PyNone
           /\ status.status = "failed"
           /\ status.processing_error =
                 "S3: An error occurred (NoSuchKey) when calling the GetObject operation"

(***************************************************************************)
(* Properties of the API (checked under SpecApi and SpecAi).               *)
(***************************************************************************)
GenerationOps == {"generate_quiz", "generate_exam", "generate_concept_map"}

\* C6, as stated: without an API key a generation call returns its result or
\* raises ValidationError, and no other error.
C6_Original ==
    resp.request.op \in GenerationOps /\ resp.kind = "raise" =>
        resp.value.exc = "ValidationError"

\* the structure the prompts ask the endpoint for (ai_service.py:141-147, 182-189)
WellFormedQuiz(reply) ==
    /\ reply.json = "list"
    /\ \A i \in 1..Len(reply.items) :
          {"question", "options", "correct_answer", "explanation", "difficulty"}
             \subseteq DOMAIN reply.items[i]

WellFormedMap(reply) ==
    /\ reply.json = "dict"
    /\ {"nodes", "connections"} \subseteq DOMAIN reply.fields
    /\ \A i \in 1..Len(reply.fields["nodes"]) :
          {"id", "label", "type", "x", "y", "description"}
             \subseteq DOMAIN reply.fields["nodes"][i]
    /\ \A i \in 1..Len(reply.fields["connections"]) :
          {"from", "to", "label", "type"} \subseteq DOMAIN reply.fields["connections"][i]

\* C7, as stated: with an API key, generate_quiz_questions and
\* generate_concept_map return the reply of the endpoint only if it parses and
\* has the required structure, and the fallback output otherwise.
C7_Original ==
    \A id \in DOMAIN uploads :
        Truthy(uploads[id].metadata, "extracted_text") =>
           LET content == SourceText(<<id>>)
           IN /\ \A reply \in AiQuizReplies, n \in NumQuestions :
                    generate_quiz_questions(content, n, settings.OPENAI_API_KEY, reply) =
                       IF reply.ok /\ reply.json # Unparseable /\ WellFormedQuiz(reply.json)
                       THEN reply.json
                       ELSE JList(generate_simple_quiz(content, n))
              /\ \A reply \in AiMapReplies, ordered \in Perms(concept_words(content)) :
                    generate_concept_map(ordered, settings.OPENAI_API_KEY, reply) =
                       IF reply.ok /\ reply.json # Unparseable /\ WellFormedMap(reply.json)
                       THEN reply.json
                       ELSE generate_simple_concept_map(ordered)

\* to `user` the upload `id` is another user's
Foreign(id, user) == id \in DOMAIN uploads /\ uploads[id].user_id # user

\* the reads and the selection of generation sources treat another user's
\* upload as an id that does not exist
ReadsIsolated ==
    \A id \in UploadIds, user \in Users :
        Foreign(id, user) =>
           /\ get_upload(id, user) = PyNone
           /\ get_upload_status(id, user) = PyNone
           /\ \A ids \in SUBSET UploadIds :
                 Selected(user, ids) = Selected(user, ids \ {id})

\* the handlers answer a request on another user's upload as on an id that does
\* not exist, and a row or its file changes only in a request of its owner
HandlersIsolated ==
    \A id \in UploadIds, user \in Users :
        /\ Foreign(id, user) =>
              /\ GetUpload(id, user) =>
                    resp' = Return(Request("get_upload", user, id, FALSE), PyNone)
              /\ GetUploadStatus(id, user) =>
                    resp' = Return(Request("get_upload_status", user, id, FALSE), PyNone)
              /\ \A r \in S3Env :
                    delete_upload(id, user, r) =>
                       /\ resp' = Return(Request("delete_upload", user, id, FALSE),
                                         PyBool(FALSE))
                       /\ UNCHANGED <<uploads, storage>>
              /\ \A p \in Procs, f \in BOOLEAN :
                    process_upload(p, id, user, f) =>
                       /\ resp' = Return(Request("process_upload", user, id, f),
                                         PyBool(FALSE))
                       /\ UNCHANGED <<uploads, storage, pc, req, loc>>
        /\ /\ id \in DOMAIN uploads
           /\ uploads[id].user_id = user
           /\ \/ id \notin DOMAIN uploads'
              \/ uploads'[id] # uploads[id]
              \/ /\ uploads[id].url \in DOMAIN storage
                 /\ \/ uploads[id].url \notin DOMAIN storage'
                    \/ storage'[uploads[id].url] # storage[uploads[id].url]
           => \/ \E r \in S3Env : delete_upload(id, user, r)
              \/ \E p \in Procs, f \in BOOLEAN : process_upload(p, id, user, f)
              \/ \E p \in Procs : CommitAttempt(p) /\ req[p] = Request(req[p].op, user, id,
                                                                      req[p].force)

\* C10: get_upload, get_upload_status, process_upload, delete_upload and the
\* generation calls treat an upload of another user exactly as an id that does
\* not exist, and leave its row and its file unchanged.
C10_OwnerIsolation == []ReadsIsolated /\ [][HandlersIsolated]_vars

\* u2 asked to delete the upload of u1, was answered False, and the upload and
\* its text are still there
C10_Witness ==
    /\ resp = Return(Request("delete_upload", "u2", 1, FALSE), PyBool(FALSE))
    /\ 1 \in DOMAIN uploads
    /\ uploads[1].user_id = "u1"
    /\ uploads[1].url \in DOMAIN storage
    /\ Truthy(uploads[1].metadata, "extracted_text")

(***************************************************************************)
(* The fallback generators of ai_service.py applied to texts (SpecText):   *)
(* a text is a run of sentences separated by '.', with or without a final  *)
(* '.'.                                                                    *)
(***************************************************************************)
\* sentences of a text
MaxSentences == 3
\* the largest number of questions asked for
MaxCount == 3

LongSentence == <<"g", "a", "t", "t", "o", " ", "m", "a", "n", "g", "i", "a", " ",
                  "i", "l", " ", "p", "e", "s", "c", "e", " ", "x">>

OtherLongSentence == <<"l", "a", " ", "c", "a", "s", "a", " ", "d", "e", "l", " ", "r",
                       "e", " ", "h", "a", " ", "u", "n", " ", "t", "e", "t", "t", "o">>

\* exactly SubstantialLen characters
ThresholdSentence == <<"i", "l", " ", "r", "e", " ", "h", "a", " ", "u", "n", " ", "b",
                       "e", "l", " ", "c", "a", "n", "e">>

ShortSentence == <<"O", "k">>

\* longer than SubstantialLen before strip(), shorter after
PaddedSentence == <<" ", " ", "i", "l", " ", "r", "e", " ", "h", "a", " ", "u", "n",
                    " ", "c", "a", "n", "e", " ", " ", " ">>

BlankSentence == <<" ">>

SentenceBlocks == {LongSentence, OtherLongSentence, ThresholdSentence, ShortSentence,
                   PaddedSentence, BlankSentence}

Texts ==
    LET runs == UNION {[1..k -> SentenceBlocks] : k \in 0..MaxSentences}
    IN {Join(r, <<".">>) : r \in runs} \cup {Join(r, <<".">>) \o <<".">> : r \in runs}

\* the text the generators are applied to
TheText == submitted.file.text

InitText ==
    /\ settings = [OPENAI_API_KEY |-> FALSE, S3 |-> FALSE]
    /\ \E text \in Texts :
          submitted = [type |-> "text", file |-> File("txt", "text", text, <<>>, Len(text))]
    /\ uploads = EmptyDict
    /\ storage = EmptyDict
    /\ nextId = 1
    /\ clock = 1
    /\ served = 0
    /\ pc = [p \in Procs |-> "idle"]
    /\ req = [p \in Procs |-> IdleReq]
    /\ loc = [p \in Procs |-> NoLoc]
    /\ resp = NoResp
    /\ quizzes = <<>>
    /\ concept_maps = <<>>
    /\ concept_nodes = <<>>
    /\ concept_connections = <<>>
    /\ users = Accounts
    /\ issued = {}

\* a call of _generate_simple_quiz(content, num_questions)
SimpleQuiz(num_questions) ==
    /\ resp' = Return(GenRequest("_generate_simple_quiz", "none", {}, num_questions),
                      JList(generate_simple_quiz(TheText, num_questions)))
    /\ UNCHANGED <<generated, accounts, settings, submitted, uploads, storage, nextId, clock, served,
                   pc, req, loc>>

\* a call of _generate_simple_concept_map(content)
SimpleConceptMap(ordered) ==
    /\ resp' = Return(GenRequest("_generate_simple_concept_map", "none", {}, 0),
                      generate_simple_concept_map(ordered))
    /\ UNCHANGED <<generated, accounts, settings, submitted, uploads, storage, nextId, clock, served,
                   pc, req, loc>>

NextText ==
    \/ \E n \in 0..MaxCount : SimpleQuiz(n)
    \/ \E ordered \in Perms(concept_words(TheText)) : SimpleConceptMap(ordered)

SpecText == InitText /\ [][NextText]_vars

(***************************************************************************)
(* Properties of the fallback generators (checked under SpecText).         *)
(***************************************************************************)
\* the sentences of a text in text order: the pieces between '.', stripped, the
\* empty ones left out
SentencesOf(text) ==
    LET parts == Split(text, ".")
    IN SelectSeq([i \in 1..Len(parts) |-> Strip(parts[i])], LAMBDA x : x # <<>>)

\* the sentences longer than the minimum, in text order
Qualifying(text) == SelectSeq(SentencesOf(text), LAMBDA x : Len(x) > SubstantialLen)

\* C11: the fallback question generator returns at most n questions, each the
\* question of a sentence of the text that is longer than 20 characters.
C11_FallbackQuizBounded ==
    resp.request.op = "_generate_simple_quiz" =>
        LET questions == resp.value.items
            qualifying == Qualifying(TheText)
        IN /\ Len(questions) <= resp.request.n
           /\ \A i \in 1..Len(questions) :
                 \E j \in 1..Len(qualifying) : questions[i] = simple_question(qualifying[j])

\* two questions were asked of a text of three sentences, two of them long and
\* the other one among the first two: one question came back
C11_Witness ==
    /\ resp.request.op = "_generate_simple_quiz"
    /\ resp.request.n = 2
    /\ Len(Qualifying(TheText)) = 2
    /\ Len(SentencesOf(TheText)) = 3
    /\ Len(resp.value.items) = 1

\* C12, as stated: the generator returns exactly min(count, q) questions, one for
\* each of the first count qualifying sentences in text order.
C12_Original ==
    resp.request.op = "_generate_simple_quiz" =>
        LET qualifying == Qualifying(TheText)
            expected == SubSeq(qualifying, 1, Min(resp.request.n, Len(qualifying)))
        IN resp.value.items = [i \in 1..Len(expected) |-> simple_question(expected[i])]

\* C13: every connection of the fallback concept map joins two nodes of the map.
C13_FallbackEdgesResolved ==
    resp.request.op = "_generate_simple_concept_map" =>
        LET nodes == resp.value.fields["nodes"]
            connections == resp.value.fields["connections"]
            ids == {nodes[i]["id"] : i \in 1..Len(nodes)}
        IN \A i \in 1..Len(connections) :
              connections[i]["from"] \in ids /\ connections[i]["to"] \in ids

\* a map of four nodes chained by three connections
C13_Witness ==
    /\ resp.request.op = "_generate_simple_concept_map"
    /\ Len(resp.value.fields["nodes"]) = 4
    /\ Len(resp.value.fields["connections"]) = 3

(***************************************************************************)
(* Generation on a deployment with an API key whose first request, the     *)
(* upload of the text file by u1, has completed (SpecGen): the generation  *)
(* calls of SpecAi from that state on.                                     *)
(***************************************************************************)
\* the row of the first upload once its attempt has committed
FirstUpload(ai) ==
    LET created == NewUpload("u1", "text", TextFile.size, Url("local", 1))
        extracted == extract_metadata(TextFile, "text", TRUE, ai)
    IN Flush(created, created,
             Assigned([ok |-> TRUE, metadata |-> extracted.metadata, error |-> NoExc], 1))

InitGen ==
    /\ settings = [OPENAI_API_KEY |-> TRUE, S3 |-> FALSE]
    /\ submitted = [type |-> "text", file |-> TextFile]
    /\ \E ai \in AiReplies :
          /\ uploads = Put(EmptyDict, 1, FirstUpload(ai))
          /\ resp = Return(Request("create_upload", "u1", 1, FALSE), FirstUpload(ai))
    /\ storage = Put(EmptyDict, Url("local", 1), TextFile)
    /\ nextId = 2
    /\ clock = 2
    /\ served = 1
    /\ pc = [p \in Procs |-> "idle"]
    /\ req = [p \in Procs |-> IdleReq]
    /\ loc = [p \in Procs |-> NoLoc]
    /\ quizzes = <<>>
    /\ concept_maps = <<>>
    /\ concept_nodes = <<>>
    /\ concept_connections = <<>>
    /\ users = Accounts
    /\ issued = {}

NextGen == Generation

SpecGen == InitGen /\ [][NextGen]_vars

(***************************************************************************)
(* Properties of the persisted graphs and items (SpecGen, SpecApi).        *)
(***************************************************************************)
\* the connections of a graph whose two endpoints are ids of its nodes
Resolved(graph) ==
    LET ai_nodes == Get(graph.fields, "nodes", <<>>)
        ids == {ai_nodes[i]["id"] : i \in 1..Len(ai_nodes)}
    IN SelectSeq(Get(graph.fields, "connections", <<>>),
                 LAMBDA c : c["from"] \in ids /\ c["to"] \in ids)

\* every stored connection joins two nodes stored for the same map
NoDanglingConnection ==
    \A m \in 1..Len(concept_maps) :
        \A c \in 1..Len(concept_maps[m].connections) :
            /\ concept_maps[m].connections[c].from_node_id \in 1..Len(concept_maps[m].nodes)
            /\ concept_maps[m].connections[c].to_node_id \in 1..Len(concept_maps[m].nodes)

\* a generation that returns has stored every node of the graph and exactly its
\* resolved connections, each between the nodes its temporary ids stand for
StoresResolvedOnly ==
    resp'.request.op = "generate_concept_map" /\ resp'.kind = "return" =>
        \A u \in {resp'.request.user}, ids \in {resp'.request.ids}, r \in AiMapReplies :
        \A rows \in RowOrders(u, ids) : \A ordered \in WordOrders(rows) :
            GenerateConceptMap(u, ids, rows, ordered, r) =>
               LET graph == generate_concept_map(ordered, settings.OPENAI_API_KEY, r)
                   ai_nodes == Get(graph.fields, "nodes", <<>>)
                   resolved == Resolved(graph)
                   stored == concept_maps'[Len(concept_maps')]
               IN /\ Len(concept_maps') = Len(concept_maps) + 1
                  /\ Len(stored.nodes) = Len(ai_nodes)
                  /\ Len(stored.connections) = Len(resolved)
                  /\ \A i \in 1..Len(resolved) :
                        /\ ai_nodes[stored.connections[i].from_node_id]["id"]
                              = resolved[i]["from"]
                        /\ ai_nodes[stored.connections[i].to_node_id]["id"]
                              = resolved[i]["to"]

\* C14: a connection of a generated graph is stored only if both its temporary
\* ids were mapped to nodes stored for the same map; a connection with an
\* unresolved endpoint is dropped and the rest of the graph is stored.
C14_UnresolvedDropped == []NoDanglingConnection /\ [][StoresResolvedOnly]_vars

\* the reply with one node and a connection to an id that is no node was stored:
\* its node is there, its connection is not
C14_Witness ==
    /\ resp.request.op = "generate_concept_map"
    /\ resp.kind = "return"
    /\ Len(concept_maps) = 1
    /\ Len(concept_maps[1].nodes) = 1
    /\ concept_maps[1].nodes[1].label = AiLabel
    /\ concept_maps[1].connections = <<>>

\* C15, as stated: without an API key everything stored comes from the fallback
\* path, so no stored question or node has ai_generated set.
C15_Original ==
    ~settings.OPENAI_API_KEY =>
        /\ \A q \in 1..Len(quizzes) : \A i \in 1..Len(quizzes[q].questions) :
              ~quizzes[q].questions[i].ai_generated
        /\ \A m \in 1..Len(concept_maps) : \A i \in 1..Len(concept_maps[m].nodes) :
              ~concept_maps[m].nodes[i].ai_generated

(***************************************************************************)
(* core/security.py: tokens.  Times are minutes; a token is the claims it  *)
(* carries and the key that signed it.                                     *)
(***************************************************************************)
SECRET_KEY == "your-secret-key-change-in-production"
ACCESS_TOKEN_EXPIRE_MINUTES == 30
REFRESH_TOKEN_EXPIRE_DAYS == 7
MinutesPerDay == 24 * 60

\* jwt.encode
encode(claims, key) == [claims |-> claims, key |-> key]

\* jwt.decode: the signature and the expiry claim are verified against UTC
decode(token, key, now) ==
    IF token.key # key THEN Raise("Signature verification failed.")
    ELSE IF now > token.claims.exp THEN Raise("Signature has expired.")
    ELSE Ok(token.claims)

\* datetime.fromtimestamp: the naive local time of a timestamp
fromtimestamp(timestamp, utc_offset) == timestamp + utc_offset

create_access_token(data, now) ==
    encode([sub |-> data.sub, email |-> data.email,
            exp |-> now + ACCESS_TOKEN_EXPIRE_MINUTES, type |-> "access"], SECRET_KEY)

create_refresh_token(data, now) ==
    encode([sub |-> data.sub, email |-> data.email,
            exp |-> now + REFRESH_TOKEN_EXPIRE_DAYS * MinutesPerDay, type |-> "refresh"],
           SECRET_KEY)

create_token_pair(user_id, email, now) ==
    [access_token |-> create_access_token([sub |-> user_id, email |-> email], now),
     refresh_token |-> create_refresh_token([sub |-> user_id, email |-> email], now),
     token_type |-> "bearer"]

\* verify_token: utcnow() is compared with the local time of the expiry
verify_token(token, token_type, now, utc_offset) ==
    LET decoded == decode(token, SECRET_KEY, now)
    IN IF decoded.raised THEN Raise("Invalid token")
       ELSE IF decoded.value.type # token_type THEN Raise("Invalid token type")
       ELSE IF now > fromtimestamp(decoded.value.exp, utc_offset) THEN Raise("Token expired")
       ELSE Ok(decoded.value)

get_current_user_id(token, now, utc_offset) ==
    LET payload == verify_token(token, "access", now, utc_offset)
    IN IF payload.raised THEN payload
       ELSE IF "sub" \notin DOMAIN payload.value THEN Raise("Invalid token payload")
       ELSE Ok(payload.value.sub)

(***************************************************************************)
(* auth_service.py                                                         *)
(***************************************************************************)
\* db.query(User).filter(User.email == email).first()
get_user_by_email(table, email) ==
    IF \E id \in DOMAIN table : table[id].email = email
    THEN table[CHOOSE id \in DOMAIN table : table[id].email = email]
    ELSE PyNone

\* db.query(User).filter(User.id == user_id).first()
get_user_by_id(table, user_id) ==
    IF user_id \in DOMAIN table THEN table[user_id] ELSE PyNone

\* variant: the email column without its unique index
InsertUser_unconstrained(table, user) ==
    [raised |-> FALSE, users |-> Put(table, user.id, user)]

\* db.add(user); db.commit() under the unique index on users.email
InsertUser(table, user) ==
    IF \E id \in DOMAIN table : table[id].email = user.email
    THEN [raised |-> TRUE, users |-> table]
    ELSE [raised |-> FALSE, users |-> Put(table, user.id, user)]

\* UserResponse.from_orm
UserResponse(user) ==
    [id |-> user.id, email |-> user.email, name |-> user.name,
     is_active |-> user.is_active, last_login_at |-> user.last_login_at]

TokenResponse(tokens, user) ==
    [access_token |-> tokens.access_token, refresh_token |-> tokens.refresh_token,
     token_type |-> tokens.token_type, user |-> UserResponse(user)]

authenticate_user(table, email, password) ==
    LET user == get_user_by_email(table, email)
    IN IF user = PyNone THEN PyNone
       ELSE IF user.hashed_password = PyNone THEN PyNone
       ELSE IF ~verify_password(password, user.hashed_password) THEN PyNone
       ELSE user

\* variant: a deactivated account logs in like an active one
login_user_ignoring_is_active(table, login_data, now) ==
    LET user == authenticate_user(table, login_data.email, login_data.password)
    IN IF user = PyNone
       THEN [raised |-> TRUE, message |-> "Invalid email or password", users |-> table]
       ELSE LET logged == [user EXCEPT !.last_login_at = now]
            IN [raised |-> FALSE, message |-> "", users |-> Put(table, user.id, logged),
                value |-> TokenResponse(create_token_pair(user.id, user.email, now), logged)]

\* login_user: the table after the call and the tokens returned, or the error
login_user(table, login_data, now) ==
    LET user == authenticate_user(table, login_data.email, login_data.password)
    IN IF user = PyNone
       THEN [raised |-> TRUE, message |-> "Invalid email or password", users |-> table]
       ELSE IF ~user.is_active
       THEN [raised |-> TRUE, message |-> "Account is deactivated", users |-> table]
       ELSE LET logged == [user EXCEPT !.last_login_at = now]
            IN [raised |-> FALSE, message |-> "", users |-> Put(table, user.id, logged),
                value |-> TokenResponse(create_token_pair(user.id, user.email, now), logged)]

\* deactivate_user
deactivate_user(table, user_id) ==
    IF user_id \in DOMAIN table
    THEN [table EXCEPT ![user_id].is_active = FALSE]
    ELSE table

(***************************************************************************)
(* api/v1/endpoints/auth.py, users.py: the requests on accounts.           *)
(***************************************************************************)
AuthRequest(op, data) == [op |-> op, data |-> data]

\* raise HTTPException(status_code=..., detail=...)
HTTPException(request, status_code, detail) ==
    [request |-> request, kind |-> "raise",
     value |-> [exc |-> "HTTPException", status_code |-> status_code, message |-> detail]]

\* the two tokens of a response
TokensOf(token_response) == {token_response.access_token, token_response.refresh_token}

\* POST /auth/register up to the query of register_user for an existing user
register(p, user_data) ==
    LET request == AuthRequest("register", user_data)
    IN /\ Free(p)
       /\ Serve
       /\ IF get_user_by_email(users, user_data.email) # PyNone
          THEN /\ resp' = HTTPException(request, 400, "User with this email already exists")
               /\ UNCHANGED <<pc, req>>
          ELSE /\ pc' = [pc EXCEPT ![p] = "register"]
               /\ req' = [req EXCEPT ![p] = request]
               /\ UNCHANGED resp
       /\ UNCHANGED <<generated, accounts, settings, submitted, uploads, storage, nextId,
                      clock, loc>>

\* POST /auth/register from the commit of the new user on: the insert, then the
\* login_user call that issues the tokens
register_commit(p) ==
    /\ pc[p] = "register"
    /\ \E id \in Users :
          LET user_data == req[p].data
              user == User(id, user_data.email, user_data.name,
                           get_password_hash(user_data.password), NoTime)
              inserted == InsertUser(users, user)
              logged == login_user(inserted.users,
                                   [email |-> user_data.email,
                                    password |-> user_data.password], clock)
          IN /\ id \notin DOMAIN users
             /\ IF inserted.raised
                THEN /\ resp' = HTTPException(req[p], 400, "IntegrityError")
                     /\ UNCHANGED <<users, issued>>
                ELSE IF logged.raised
                THEN /\ resp' = HTTPException(req[p], 400, logged.message)
                     /\ users' = inserted.users
                     /\ UNCHANGED issued
                ELSE /\ resp' = Return(req[p], logged.value)
                     /\ users' = logged.users
                     /\ issued' = issued \cup TokensOf(logged.value)
    /\ pc' = [pc EXCEPT ![p] = "idle"]
    /\ req' = [req EXCEPT ![p] = IdleReq]
    /\ clock' = clock + 1
    /\ UNCHANGED <<generated, settings, submitted, uploads, storage, nextId, served, loc>>

\* POST /auth/login
login(login_data) ==
    LET request == AuthRequest("login", login_data)
        logged == login_user(users, login_data, clock)
    IN /\ Serve
       /\ IF logged.raised
          THEN /\ resp' = HTTPException(request, 401, logged.message)
               /\ UNCHANGED <<users, issued>>
          ELSE /\ resp' = Return(request, logged.value)
               /\ users' = logged.users
               /\ issued' = issued \cup TokensOf(logged.value)
       /\ clock' = clock + 1
       /\ UNCHANGED <<generated, settings, submitted, uploads, storage, nextId, pc, req,
                      loc>>

\* GET /auth/me
get_current_user(token) ==
    LET request == AuthRequest("get_current_user", token)
        user_id == get_current_user_id(token, clock, settings.TZ)
    IN /\ Serve
       /\ resp' = IF user_id.raised THEN HTTPException(request, 401, user_id.value)
                  ELSE IF get_user_by_id(users, user_id.value) = PyNone
                  THEN HTTPException(request, 401, "404: User not found")
                  ELSE Return(request, get_user_by_id(users, user_id.value))
       /\ UNCHANGED <<generated, accounts, settings, submitted, uploads, storage, nextId,
                      clock, pc, req, loc>>

\* DELETE /users/account
delete_account(token) ==
    LET request == AuthRequest("delete_account", token)
        user_id == get_current_user_id(token, clock, settings.TZ)
    IN /\ Serve
       /\ IF user_id.raised
          THEN /\ resp' = HTTPException(request, 400, user_id.value)
               /\ UNCHANGED users
          ELSE IF user_id.value \notin DOMAIN users
          THEN /\ resp' = HTTPException(request, 400, "404: User not found")
               /\ UNCHANGED users
          ELSE /\ resp' = Return(request, [message |-> "Account deleted successfully"])
               /\ users' = deactivate_user(users, user_id.value)
       /\ UNCHANGED <<generated, issued, settings, submitted, uploads, storage, nextId,
                      clock, pc, req, loc>>

(***************************************************************************)
(* The requests on accounts (SpecAuth), from tables that registrations,    *)
(* OAuth sign-ins and account deletions have left, on servers in three     *)
(* time zones.                                                             *)
(***************************************************************************)
UtcOffsets == {0 - 60, 0, 60}
AccountKinds == {"absent", "password", "deactivated", "oauth"}

\* the row an account of a kind has: created by register_user, by delete_account
\* after it, or by _find_or_create_oauth_user
Account(id, email, kind, now) ==
    [User(id, email, Name,
          IF kind = "oauth" THEN PyNone ELSE get_password_hash("password-1"), now)
       EXCEPT !.is_active = (kind # "deactivated")]

AccountTable(first, second, now) ==
    [id \in {u \in Users : (u = "u1" /\ first # "absent") \/ (u = "u2" /\ second # "absent")}
        |-> IF id = "u1" THEN Account("u1", "a@x.it", first, now)
            ELSE Account("u2", "b@x.it", second, now)]

\* the tokens the accounts registered with a password were given: a pair that
\* has expired and the pair of their last login
IssuedTo(table, now) ==
    UNION {TokensOf(create_token_pair(id, table[id].email, table[id].last_login_at))
           \cup TokensOf(create_token_pair(id, table[id].email, NoTime)) :
              id \in {u \in DOMAIN table : table[u].hashed_password # PyNone}}

InitAuth ==
    /\ \E utc_offset \in UtcOffsets :
          settings = [OPENAI_API_KEY |-> FALSE, S3 |-> FALSE, TZ |-> utc_offset]
    /\ submitted = [type |-> "text", file |-> TextFile]
    /\ uploads = EmptyDict
    /\ storage = EmptyDict
    /\ nextId = 1
    /\ clock = 2 * ACCESS_TOKEN_EXPIRE_MINUTES
    /\ served = 0
    /\ pc = [p \in Procs |-> "idle"]
    /\ req = [p \in Procs |-> IdleReq]
    /\ loc = [p \in Procs |-> NoLoc]
    /\ resp = NoResp
    /\ quizzes = <<>>
    /\ concept_maps = <<>>
    /\ concept_nodes = <<>>
    /\ concept_connections = <<>>
    /\ \E first \in AccountKinds, second \in {"absent", "password"} :
          /\ users = AccountTable(first, second, clock - 1)
          /\ issued = IssuedTo(users, clock)

\* the tokens a client can present: those issued, and tokens with the same
\* claims signed with a key of its own
Presentable == issued \cup {encode(t.claims, "a key of the client") : t \in issued}

UserCreates == [email : Emails, name : {Name}, password : Passwords]
UserLogins == [email : Emails, password : Passwords]

NextAuth ==
    \/ \E p \in Procs, user_data \in UserCreates : register(p, user_data)
    \/ \E p \in Procs : register_commit(p)
    \/ \E login_data \in UserLogins : login(login_data)
    \/ \E token \in Presentable : get_current_user(token)
    \/ \E token \in Presentable : delete_account(token)

SpecAuth == InitAuth /\ [][NextAuth]_vars

(***************************************************************************)
(* Properties of registration, login and tokens (SpecAuth).                *)
(***************************************************************************)
\* no two users share an email
UniqueEmails ==
    \A a \in DOMAIN users, b \in DOMAIN users : a # b => users[a].email # users[b].email

\* the user a registration has to reject or create, judged when it commits
RegisterOutcome ==
    \A p \in Procs :
        /\ \A user_data \in UserCreates :
              register(p, user_data)
                 /\ (\E id \in DOMAIN users : users[id].email = user_data.email)
              => /\ resp'.kind = "raise"
                 /\ resp'.request = AuthRequest("register", user_data)
                 /\ users' = users
        /\ register_commit(p) =>
              LET email == req[p].data.email
              IN IF \E id \in DOMAIN users : users[id].email = email
                 THEN resp'.kind = "raise" /\ users' = users
                 ELSE /\ resp'.kind = "return"
                      /\ resp'.value.user.email = email
                      /\ resp'.value.user.id \notin DOMAIN users
                      /\ DOMAIN users' = DOMAIN users \cup {resp'.value.user.id}
                      /\ users'[resp'.value.user.id].email = email
                      /\ \A id \in DOMAIN users : users'[id] = users[id]
                      /\ resp'.value.access_token.claims.type = "access"
                      /\ resp'.value.access_token.claims.sub = resp'.value.user.id

\* C16: registering with an email no user has returns an access token and the
\* created user carrying that email; registering with a registered email is
\* rejected and adds no user; no two users ever share an email.
C16_RegisterUniqueEmail == []UniqueEmails /\ [][RegisterOutcome]_vars

\* a registration has succeeded while a second one for the same email, which
\* passed its check before, is still to commit
C16_Witness ==
    /\ resp.request.op = "register"
    /\ resp.kind = "return"
    /\ \E p \in Procs :
          /\ pc[p] = "register"
          /\ req[p].data.email = resp.value.user.email

\* the credentials of a login that must be refused
BadCredentials(login_data) ==
    \/ \A id \in DOMAIN users : users[id].email # login_data.email
    \/ \E id \in DOMAIN users :
          /\ users[id].email = login_data.email
          /\ \/ users[id].hashed_password = PyNone
             \/ users[id].hashed_password # get_password_hash(login_data.password)
             \/ ~users[id].is_active

LoginRefused ==
    \A login_data \in UserLogins :
        login(login_data) /\ BadCredentials(login_data) =>
           /\ resp'.kind = "raise"
           /\ resp'.value.status_code = 401
           /\ issued' = issued
           /\ users' = users

\* C17: a login with an unknown email, a wrong password, an account without
\* password or a deactivated account is answered 401, issues no token and
\* leaves last_login_at as it was.
C17_BadLoginRejected == [][LoginRefused]_vars

\* a deactivated account was refused although its password was right
C17_Witness ==
    /\ resp.request.op = "login"
    /\ resp.kind = "raise"
    /\ resp.value.status_code = 401
    /\ \E id \in DOMAIN users :
          /\ users[id].email = resp.request.data.email
          /\ users[id].hashed_password = get_password_hash(resp.request.data.password)
          /\ ~users[id].is_active
          /\ users[id].last_login_at < clock - 1

\* C18, as stated: an access token issued for U that has not reached its expiry
\* is answered by GET /auth/me with U's id, email and name, and nothing but
\* such a token is answered with a user.
C18_Original ==
    resp.request.op = "get_current_user" =>
        LET token == resp.request.data
        IN /\ (token \in issued /\ token.claims.type = "access"
                  /\ clock <= token.claims.exp) =>
                 /\ resp.kind = "return"
                 /\ resp.value.id = token.claims.sub
                 /\ resp.value.email = token.claims.email
                 /\ resp.value.name = users[token.claims.sub].name
           /\ resp.kind = "return" =>
                 /\ token \in issued
                 /\ token.claims.type = "access"
                 /\ resp.value.id = token.claims.sub

(***************************************************************************)
(* Reprocessing of a stored upload (SpecReprocess): process_upload calls,  *)
(* each in its own handler and session, on the deployment with an API key  *)
(* once the upload of the text file by u1 has completed; served counts the *)
(* requests from there on.                                                 *)
(***************************************************************************)
InitReprocess ==
    /\ settings = [OPENAI_API_KEY |-> TRUE, S3 |-> FALSE]
    /\ submitted = [type |-> "text", file |-> TextFile]
    /\ \E ai \in AiReplies : uploads = Put(EmptyDict, 1, FirstUpload(ai))
    /\ storage = Put(EmptyDict, Url("local", 1), TextFile)
    /\ nextId = 2
    /\ clock = 2
    /\ served = 0
    /\ pc = [p \in Procs |-> "idle"]
    /\ req = [p \in Procs |-> IdleReq]
    /\ loc = [p \in Procs |-> NoLoc]
    /\ resp = NoResp
    /\ quizzes = <<>>
    /\ concept_maps = <<>>
    /\ concept_nodes = <<>>
    /\ concept_connections = <<>>
    /\ users = Accounts
    /\ issued = {}

NextReprocess ==
    \/ \E p \in Procs, i \in UploadIds, u \in Users, f \in BOOLEAN :
          process_upload(p, i, u, f)
    \/ \E p \in Procs, r \in S3Env, ai \in AiEnv : ProcessFile(p, r, ai)
    \/ \E p \in Procs : CommitAttempt(p)

SpecReprocess == InitReprocess /\ [][NextReprocess]_vars

\* a commit leaves in the metadata column the whole value its attempt computed,
\* or the whole value that was there
WholeMetadata ==
    \A p \in Procs :
        Commits(p) =>
           \/ uploads'[req[p].id].metadata = uploads[req[p].id].metadata
           \/ loc[p].ok /\ uploads'[req[p].id].metadata = loc[p].metadata

Extracted_then_analysed(metadata) ==
    /\ {"keywords", "language"} \subseteq DOMAIN metadata
    /\ "summary" \in DOMAIN metadata => Truthy(metadata, "extracted_text")

\* a row or a status report that says completed carries the stored metadata
Published(row) ==
    row.status = "completed" =>
        /\ Extracted_then_analysed(row.metadata)
        /\ row.processed_at # NoTime

PublishedWithMetadata ==
    /\ \A id \in DOMAIN uploads : Published(uploads[id])
    /\ (resp.request.op \in {"get_upload", "get_upload_status"}
           /\ resp.value # PyNone) => Published(resp.value)

\* a status becomes completed or failed only in the commit that ends an attempt:
\* the attempt has downloaded and extracted before, its UPDATE carries the
\* metadata unless the column already held the value its session loaded, and
\* the handler is done with the row
StatusWriteLast ==
    \A id \in DOMAIN uploads \cap DOMAIN uploads' :
        (uploads'[id].status # uploads[id].status
            /\ uploads'[id].status \in {"completed", "failed"}) =>
           \E p \in Procs :
              /\ Commits(p)
              /\ req[p].id = id
              /\ loc[p].found
              /\ pc'[p] = "idle"
              /\ loc'[p] = NoLoc
              /\ IF loc[p].ok
                 THEN /\ uploads'[id].status = "completed"
                      /\ uploads'[id].processed_at = clock
                      /\ \/ uploads'[id].metadata = loc[p].metadata
                         \/ /\ loc[p].metadata = loc[p].upload.metadata
                            /\ uploads'[id].metadata = uploads[id].metadata
                 ELSE /\ uploads'[id].status = "failed"
                      /\ uploads'[id].metadata = uploads[id].metadata

GenerationServed ==
    /\ served' # served
    /\ pc' = pc
    /\ resp'.request.op \in GenerationOps

\* none of the requested uploads of the caller has a non-empty extracted text
NoContent(user_id, source_upload_ids) ==
    \A id \in source_upload_ids :
        (id \in DOMAIN uploads /\ uploads[id].user_id = user_id) =>
           ~Truthy(uploads[id].metadata, "extracted_text")

NoContentRejected ==
    (GenerationServed /\ NoContent(resp'.request.user, resp'.request.ids)) =>
        /\ resp'.kind = "raise"
        /\ resp'.value.exc = "ValidationError"
        /\ quizzes' = quizzes
        /\ concept_maps' = concept_maps

RECURSIVE SumPoints(_)
SumPoints(questions) ==
    IF questions = <<>> THEN 0
    ELSE Head(questions).points + SumPoints(Tail(questions))

MaxWords == 8

Vocabulary == << <<"g", "a", "t", "t", "o">>,
                <<"m", "a", "n", "g", "i", "a">>,
                <<"I", "l">>,
                <<"c", "a", "n", "e">>,
                <<"c", "o", "r", "r", "e">>,
                <<"G", "l", "i">>,
                <<"u", "c", "c", "e", "l", "l", "i">>,
                <<"v", "o", "l", "a", "n", "o">>,
                <<"p", "e", "s", "c", "e">>,
                <<"G", "a", "t", "t", "o">>,
                <<"t", "e", "t", "t", "o">>,
                <<"c", "a", "s", "a">>,
                <<"e">>,
                <<"f", "i", "u", "m", "e">>,
                <<"m", "o", "n", "t", "e">>,
                <<"C", "A", "N", "E">> >>

ExampleText == <<"I", "l", " ", "g", "a", "t", "t", "o", " ", "m", "a", "n", "g", "i", "a",
                 ".", " ", "I", "l", " ", "c", "a", "n", "e", " ", "c", "o",
                 "r", "r", "e", ".", " ", "G", "l", "i", " ", "u", "c", "c",
                 "e", "l", "l", "i", " ", "v", "o", "l", "a", "n", "o", ".">>

\* n words of the vocabulary from its word number start on, every stride-th one
Segment(start, n, stride) ==
    [i \in 1..n |-> Vocabulary[((start + (i - 1) * stride) % Len(Vocabulary)) + 1]]

Starts == {0, 4, 8, 12}
Strides == {1, 2}

\* two segments, the words separated by ". " where a sentence ends and by " "
KeywordTexts ==
    {ExampleText, <<>>} \cup
    {Join(Segment(a, n, d), <<" ">>) \o <<".", " ">> \o Join(Segment(b, m, 1), <<" ">>) :
        <<a, n, d, b, m>> \in Starts \X (0..MaxWords) \X Strides \X Starts \X (0..MaxWords)}

InitKeywords ==
    /\ settings = [OPENAI_API_KEY |-> FALSE, S3 |-> FALSE]
    /\ \E text \in KeywordTexts :
          submitted = [type |-> "text", file |-> File("txt", "text", text, <<>>, Len(text))]
    /\ uploads = EmptyDict
    /\ storage = EmptyDict
    /\ nextId = 1
    /\ clock = 1
    /\ served = 0
    /\ pc = [p \in Procs |-> "idle"]
    /\ req = [p \in Procs |-> IdleReq]
    /\ loc = [p \in Procs |-> NoLoc]
    /\ resp = NoResp
    /\ quizzes = <<>>
    /\ concept_maps = <<>>
    /\ concept_nodes = <<>>
    /\ concept_connections = <<>>
    /\ users = Accounts
    /\ issued = {}

\* a call of _extract_simple_keywords(text)
SimpleKeywords ==
    /\ resp = NoResp
    /\ resp' = Return(GenRequest("_extract_simple_keywords", "none", {}, 0),
                      JList(extract_simple_keywords(TheText)))
    /\ UNCHANGED <<generated, accounts, settings, submitted, uploads, storage, nextId, clock, served,
                   pc, req, loc>>

NextKeywords == SimpleKeywords

SpecKeywords == InitKeywords /\ [][NextKeywords]_vars

\* the tokens of a text: the words of its lower-cased form, in text order
Tokens(text) == Words(Lower(text))

\* how often a token occurs among the tokens, and where it occurs first
Frequency(tokens, w) == Cardinality({i \in 1..Len(tokens) : tokens[i] = w})
FirstSeen(tokens, w) ==
    CHOOSE i \in 1..Len(tokens) : tokens[i] = w /\ \A j \in 1..(i - 1) : tokens[j] # w

\* a ranks before b: it is more frequent, or as frequent and seen first
RanksBefore(tokens, a, b) ==
    \/ Frequency(tokens, a) > Frequency(tokens, b)
    \/ /\ Frequency(tokens, a) = Frequency(tokens, b)
       /\ FirstSeen(tokens, a) < FirstSeen(tokens, b)

LongTokens(tokens) == {tokens[i] : i \in {j \in 1..Len(tokens) : Len(tokens[j]) > 3}}

\* C24: the fallback keyword extraction returns at most 10 tokens, each longer
\* than 3 characters and a word of the lower-cased text, ordered by frequency,
\* the most frequent first and equally frequent ones in first-seen order; a token
\* left out ranks after every token returned.
C24_SimpleKeywordsRanked ==
    resp.request.op = "_extract_simple_keywords" =>
        LET kws == resp.value.items
            tokens == Tokens(TheText)
        IN /\ Len(kws) <= 10
           /\ \A i \in 1..Len(kws) : Len(kws[i]) > 3 /\ kws[i] \in LongTokens(tokens)
           /\ \A i, j \in 1..Len(kws) : i < j => RanksBefore(tokens, kws[i], kws[j])
           /\ \A w \in LongTokens(tokens) :
                 (\A i \in 1..Len(kws) : kws[i] # w) =>
                    /\ Len(kws) = 10
                    /\ \A i \in 1..Len(kws) : RanksBefore(tokens, kws[i], w)

\* ten keywords came back from a text of more than ten long tokens with a token
\* of three characters: two of them equally frequent, and one seen later than the
\* keyword after it
C24_Witness ==
    /\ resp.request.op = "_extract_simple_keywords"
    /\ Len(resp.value.items) = 10
    /\ LET tokens == Tokens(TheText)
           kws == resp.value.items
       IN /\ Cardinality(LongTokens(tokens)) > 10
          /\ \E i \in 1..Len(tokens) : Len(tokens[i]) = 3
          /\ \E i \in 1..9 : Frequency(tokens, kws[i]) = Frequency(tokens, kws[i + 1])
          /\ \E i \in 1..9 : FirstSeen(tokens, kws[i]) > FirstSeen(tokens, kws[i + 1])

(***************************************************************************)
(* concept_map_service.py: editing the nodes and connections of a map.     *)
(* The id of a row is its position in its table; a deleted row leaves a    *)
(* row of map 0 behind, so that its id is not used again (ids are uuid4).  *)
(***************************************************************************)
NoMap == 0
DeletedNode == [concept_map_id |-> NoMap, label |-> <<>>]
DeletedConnection == [concept_map_id |-> NoMap, from_node_id |-> 0, to_node_id |-> 0,
                      label |-> ""]

MapRequest(op, user_id, concept_map_id, row_id) ==
    [op |-> op, user |-> user_id, concept_map_id |-> concept_map_id, row_id |-> row_id]

\* ConceptMapService.get_concept_map: the map with this id if the user owns it
get_concept_map(concept_map_id, user_id) ==
    /\ concept_map_id \in 1..Len(concept_maps)
    /\ concept_maps[concept_map_id].user_id = user_id

\* the query of a node or connection by its id and the id of its map
RowOfMap(table, row_id, concept_map_id) ==
    /\ row_id \in 1..Len(table)
    /\ table[row_id].concept_map_id = concept_map_id

\* a row of concept_nodes with this id exists
NodeExists(node_id) ==
    node_id \in 1..Len(concept_nodes) /\ concept_nodes[node_id].concept_map_id # NoMap

\* the connections that start or end at a node
ConnectionsOf(node_id) ==
    {c \in 1..Len(concept_connections) :
        /\ concept_connections[c].concept_map_id # NoMap
        /\ node_id \in {concept_connections[c].from_node_id,
                        concept_connections[c].to_node_id}}

NodeLabel == <<"n", "o", "d", "o">>

\* ConceptMapService.create_concept_node
create_concept_node(concept_map_id, user_id, label) ==
    LET request == MapRequest("create_concept_node", user_id, concept_map_id, 0)
        node == [concept_map_id |-> concept_map_id, label |-> label]
    IN /\ Serve
       /\ IF ~get_concept_map(concept_map_id, user_id)
          THEN /\ resp' = RaiseOut(request, "NotFoundError", "Concept map")
               /\ UNCHANGED concept_nodes
          ELSE /\ concept_nodes' = Append(concept_nodes, node)
               /\ resp' = Return(request, node)
       /\ UNCHANGED <<accounts, settings, submitted, uploads, storage, nextId, clock, pc, req, loc,
                      quizzes, concept_maps, concept_connections>>

\* ConceptMapService.delete_concept_node. The relationships of ConceptNode to
\* its connections have no delete cascade: the flush sets from_node_id or
\* to_node_id of the node's connections to NULL, which the NOT NULL columns
\* refuse, and the commit raises.
delete_concept_node(concept_map_id, node_id, user_id) ==
    LET request == MapRequest("delete_concept_node", user_id, concept_map_id, node_id)
    IN /\ Serve
       /\ IF ~get_concept_map(concept_map_id, user_id)
             \/ ~RowOfMap(concept_nodes, node_id, concept_map_id)
          THEN /\ resp' = Return(request, PyBool(FALSE))
               /\ UNCHANGED concept_nodes
          ELSE IF ConnectionsOf(node_id) # {}
          THEN /\ resp' = RaiseOut(request, "IntegrityError", "NOT NULL constraint failed")
               /\ UNCHANGED concept_nodes
          ELSE /\ concept_nodes' = [concept_nodes EXCEPT ![node_id] = DeletedNode]
               /\ resp' = Return(request, PyBool(TRUE))
       /\ UNCHANGED <<accounts, settings, submitted, uploads, storage, nextId, clock, pc, req, loc,
                      quizzes, concept_maps, concept_connections>>

\* ConceptMapService.create_concept_connection. With foreign keys enforced by
\* the database the insert of a connection to a node that does not exist raises.
create_concept_connection(concept_map_id, user_id, from_node_id, to_node_id) ==
    LET request == MapRequest("create_concept_connection", user_id, concept_map_id, 0)
        connection == [concept_map_id |-> concept_map_id, from_node_id |-> from_node_id,
                       to_node_id |-> to_node_id, label |-> ""]
    IN /\ Serve
       /\ IF ~get_concept_map(concept_map_id, user_id)
          THEN /\ resp' = RaiseOut(request, "NotFoundError", "Concept map")
               /\ UNCHANGED concept_connections
          ELSE IF settings.FOREIGN_KEYS
                  /\ ~(NodeExists(from_node_id) /\ NodeExists(to_node_id))
          THEN /\ resp' = RaiseOut(request, "IntegrityError", "FOREIGN KEY constraint failed")
               /\ UNCHANGED concept_connections
          ELSE /\ concept_connections' = Append(concept_connections, connection)
               /\ resp' = Return(request, connection)
       /\ UNCHANGED <<accounts, settings, submitted, uploads, storage, nextId, clock, pc, req, loc,
                      quizzes, concept_maps, concept_nodes>>

\* ConceptMapService.update_concept_connection with the fields of
\* ConceptConnectionUpdate (label, type, strength): here the label
update_concept_connection(concept_map_id, connection_id, user_id, label) ==
    LET request == MapRequest("update_concept_connection", user_id, concept_map_id,
                              connection_id)
    IN /\ Serve
       /\ IF ~get_concept_map(concept_map_id, user_id)
          THEN /\ resp' = RaiseOut(request, "NotFoundError", "Concept map")
               /\ UNCHANGED concept_connections
          ELSE IF ~RowOfMap(concept_connections, connection_id, concept_map_id)
          THEN /\ resp' = RaiseOut(request, "NotFoundError", "Concept connection")
               /\ UNCHANGED concept_connections
          ELSE /\ concept_connections' =
                     [concept_connections EXCEPT ![connection_id].label = label]
               /\ resp' = Return(request, concept_connections'[connection_id])
       /\ UNCHANGED <<accounts, settings, submitted, uploads, storage, nextId, clock, pc, req, loc,
                      quizzes, concept_maps, concept_nodes>>

\* ConceptMapService.delete_concept_connection
delete_concept_connection(concept_map_id, connection_id, user_id) ==
    LET request == MapRequest("delete_concept_connection", user_id, concept_map_id,
                              connection_id)
    IN /\ Serve
       /\ IF ~get_concept_map(concept_map_id, user_id)
             \/ ~RowOfMap(concept_connections, connection_id, concept_map_id)
          THEN /\ resp' = Return(request, PyBool(FALSE))
               /\ UNCHANGED concept_connections
          ELSE /\ concept_connections' =
                     [concept_connections EXCEPT ![connection_id] = DeletedConnection]
               /\ resp' = Return(request, PyBool(TRUE))
       /\ UNCHANGED <<accounts, settings, submitted, uploads, storage, nextId, clock, pc, req, loc,
                      quizzes, concept_maps, concept_nodes>>

\* a deployment without API key, with or without foreign keys enforced (SQLite
\* enforces them only when the connection asks for it), where the first user has
\* uploaded the text file and generated a concept map from it
InitMap ==
    /\ \E foreign_keys \in BOOLEAN :
          settings = [OPENAI_API_KEY |-> FALSE, S3 |-> FALSE, FOREIGN_KEYS |-> foreign_keys]
    /\ submitted = [type |-> "text", file |-> TextFile]
    /\ uploads = Put(EmptyDict, 1, FirstUpload(NoAi))
    /\ storage = Put(EmptyDict, Url("local", 1), TextFile)
    /\ nextId = 2
    /\ clock = 2
    /\ served = 0
    /\ pc = [p \in Procs |-> "idle"]
    /\ req = [p \in Procs |-> IdleReq]
    /\ loc = [p \in Procs |-> NoLoc]
    /\ quizzes = <<>>
    /\ \E ordered \in WordOrders(<<1>>) :
          LET made == MapRows(generate_concept_map(ordered, FALSE, AiJsonFailure))
              concept_map == [user_id |-> "u1", nodes |-> made.nodes,
                              connections |-> made.connections]
          IN /\ concept_maps = <<concept_map>>
             /\ concept_nodes = NodeRows(1, made.nodes)
             /\ concept_connections = ConnectionRows(1, 0, made.connections)
             /\ resp = Return(GenRequest("generate_concept_map", "u1", {1}, 0), concept_map)
    /\ users = Accounts
    /\ issued = {}

MapIds == 1..(Len(concept_maps) + 1)
NodeIds == 1..(Len(concept_nodes) + 1)
ConnectionIds == 1..(Len(concept_connections) + 1)

NextMap ==
    \/ \E u \in Users, ids \in SUBSET UploadIds, r \in AiMapEnv :
          \E rows \in RowOrders(u, ids) : \E ordered \in WordOrders(rows) :
             GenerateConceptMap(u, ids, rows, ordered, r)
    \/ \E m \in MapIds, u \in Users : create_concept_node(m, u, NodeLabel)
    \/ \E m \in MapIds, n \in NodeIds, u \in Users : delete_concept_node(m, n, u)
    \/ \E m \in MapIds, u \in Users, from \in NodeIds, to \in NodeIds :
          create_concept_connection(m, u, from, to)
    \/ \E m \in MapIds, c \in ConnectionIds, u \in Users :
          update_concept_connection(m, c, u, "causes")
    \/ \E m \in MapIds, c \in ConnectionIds, u \in Users : delete_concept_connection(m, c, u)

SpecMap == InitMap /\ [][NextMap]_vars

\* C25, as stated: every persisted connection joins two nodes that exist and
\* belong to the concept map of the connection.
C25_Original ==
    \A c \in 1..Len(concept_connections) :
        concept_connections[c].concept_map_id # NoMap =>
           /\ RowOfMap(concept_nodes, concept_connections[c].from_node_id,
                       concept_connections[c].concept_map_id)
           /\ RowOfMap(concept_nodes, concept_connections[c].to_node_id,
                       concept_connections[c].concept_map_id)

(***************************************************************************)
(* process_upload without force_reprocess (SpecReprocess).                 *)
(***************************************************************************)
\* a process_upload without force_reprocess of a completed upload, by its owner,
\* answers True and changes neither the table nor the store, and starts nothing
CompletedLeftAlone ==
    \A p \in Procs, i \in DOMAIN uploads :
        (uploads[i].status = "completed"
            /\ process_upload(p, i, uploads[i].user_id, FALSE)) =>
           /\ resp' = Return(Request("process_upload", uploads[i].user_id, i, FALSE),
                             PyBool(TRUE))
           /\ uploads' = uploads
           /\ storage' = storage
           /\ pc' = pc /\ req' = req /\ loc' = loc

\* an attempt that a process_upload without force_reprocess starts is one of an
\* upload that is not completed
RerunOnlyIfNotCompleted ==
    \A p \in Procs :
        (pc[p] = "idle" /\ pc'[p] # "idle" /\ req'[p].op = "process_upload"
            /\ ~req'[p].force) =>
           uploads[req'[p].id].status # "completed"

\* C26: process_upload with force_reprocess = false on a completed upload
\* returns True, leaves status, metadata, processing_error and processed_at as
\* they are and triggers no extraction; without force_reprocess only uploads that
\* are not completed are processed again.
C26_CompletedNotReprocessed == [][CompletedLeftAlone /\ RerunOnlyIfNotCompleted]_vars

\* the only request so far was a process_upload without force_reprocess of the
\* completed upload: it answered True and no handler is at work
C26_Witness ==
    /\ served = 1
    /\ resp = Return(Request("process_upload", "u1", 1, FALSE), PyBool(TRUE))
    /\ uploads[1].status = "completed"
    /\ \A p \in Procs : pc[p] = "idle"

Advance(p) ==
    /\ pc[p] \in {"process", "commit"}
    /\ \E next \in {"commit", "idle"} : next # pc[p] /\ pc' = [pc EXCEPT ![p] = next]

SpecFair == InitApi /\ [][Next]_vars /\ \A p \in Procs : WF_pc(Advance(p))

\* the upload is no longer in 'processing': completed, failed or deleted
Settled(id) ==
    id \notin DOMAIN uploads \/ uploads[id].status \in {"completed", "failed"}

\* C28, as stated: every upload in status 'processing' eventually reaches
\* 'completed' or 'failed' (or is deleted), whatever requests follow.
C28_Original ==
    \A id \in UploadIds :
        (id \in DOMAIN uploads /\ uploads[id].status = "processing") ~> Settled(id)

(***************************************************************************)
(* Persistence of a generation that raises (SpecGen).                      *)
(***************************************************************************)
\* a generation call that raises leaves every table of generated content as it was
RaisedStoresNothing ==
    (GenerationServed /\ resp'.kind = "raise") =>
        /\ quizzes' = quizzes
        /\ concept_maps' = concept_maps
        /\ concept_nodes' = concept_nodes
        /\ concept_connections' = concept_connections

LastAttempt(p) ==
    \A q \in Procs \ {p} : pc[q] = "idle" \/ req[q].id # req[p].id

\* the record the last attempt leaves pairs its status with nothing another
\* attempt wrote since it loaded the row: 'failed' with the metadata it loaded,
\* 'completed' with the processing_error it loaded
OutcomeOfOneAttempt ==
    \A p \in Procs :
        (Commits(p) /\ LastAttempt(p)) =>
           LET final == uploads'[req[p].id]
           IN /\ final.status = "failed" => final.metadata = loc[p].upload.metadata
              /\ final.status = "completed" =>
                    final.processing_error = loc[p].upload.processing_error

====
